---- MODULE Spec2Model ----
(***************************************************************************)
(* The arcade mini-games of frontend/app: Dump It (index.tsx,              *)
(* PattyDisposalGame) and Crazy Head (crazyhead.tsx).                      *)
(*                                                                         *)
(* Numbers.  The program computes in IEEE doubles; the model computes in   *)
(* fixed point.  Lengths, positions and velocities are in hundredths of a  *)
(* pixel (16000 is 160 px), coefficients in hundredths (BOUNCE 0.4 is 40)  *)
(* or thousandths (AIR_FRICTION 0.995 is 995, tilt 1.0 is 1000).  Every    *)
(* product is rounded toward zero, so that v and -v scale to opposite      *)
(* values as they do in the program.                                       *)
(*                                                                         *)
(* Rotation (rotation, rotationSpeed) is written by the handlers but read  *)
(* only by the renderer; it is not part of the state modelled here.        *)
(* Every useState value that has a ref shadow (activePatty/activePattyRef, *)
(* pan/panRef, disposedCount/disposedCountRef, projectile/projectileRef,   *)
(* headshots/headshotsRef) is written together with it by every handler,   *)
(* so one field stands for both.                                           *)
(***************************************************************************)
EXTENDS Integers, Sequences, FiniteSets, TLC

\* ------------------------------------------------------------------ numbers

Abs(a) == IF a < 0 THEN -a ELSE a

Min(a, b) == IF a < b THEN a ELSE b

Max(a, b) == IF a > b THEN a ELSE b

\* a * num / den, rounded toward zero
Scale(a, num, den) ==
    IF a * num >= 0 THEN (a * num) \div den ELSE -((-(a * num)) \div den)

Px(n) == n * 100

Sq(a) == a * a

RECURSIVE SqrtSearch(_, _, _)
SqrtSearch(n, lo, hi) ==
    IF lo >= hi THEN lo
    ELSE LET mid == (lo + hi + 1) \div 2
         IN  IF mid * mid <= n THEN SqrtSearch(n, mid, hi)
             ELSE SqrtSearch(n, lo, mid - 1)

\* Math.sqrt on a non-negative number (floor, in the unit of its argument's root)
Sqrt(n) == SqrtSearch(n, 0, 46340)

\* ------------------------------------------------------------------ screen

\* useWindowDimensions(): the window of the model is 320 x 600 px
GAME_WIDTH == 32000

GAME_HEIGHT == 60000

\* ------------------------------------------------------------------ Dump It: constants

GRAVITY == 55

AIR_FRICTION == 995

BOUNCE == 40

PAN_BOUNCE == 50

MAX_ARROW_LENGTH == 16000

LAUNCH_POWER_MULTIPLIER == 18

TOTAL_LEVELS == 5

LEVEL_CONFIGS ==
    << [requiredPatties |-> 2, binYOffset |-> 0],
       [requiredPatties |-> 3, binYOffset |-> -Px(50)],
       [requiredPatties |-> 4, binYOffset |-> -Px(100)],
       [requiredPatties |-> 5, binYOffset |-> -Px(160)],
       [requiredPatties |-> 7, binYOffset |-> -Px(220)] >>

ITEM_CONFIGS ==
    [ patty |-> [radius |-> Px(42), height |-> Px(20)],
      money |-> [radius |-> Px(38), height |-> Px(18)],
      poop  |-> [radius |-> Px(40), height |-> Px(35)],
      teddy |-> [radius |-> Px(44), height |-> Px(40)],
      phone |-> [radius |-> Px(35), height |-> Px(50)] ]

\* openingWidthRatio, in hundredths
TARGET_CONFIGS ==
    [ trashbin  |-> [openingWidthRatio |-> 68],
      toilet    |-> [openingWidthRatio |-> 60],
      mouth     |-> [openingWidthRatio |-> 70],
      pig       |-> [openingWidthRatio |-> 65],
      blackhole |-> [openingWidthRatio |-> 75] ]

\* ------------------------------------------------------------------ Dump It: values

NullPoint == [set |-> FALSE, x |-> 0, y |-> 0]

Point(x, y) == [set |-> TRUE, x |-> x, y |-> y]

\* activePattyRef.current = null
NullPatty ==
    [exists |-> FALSE, x |-> 0, y |-> 0, vx |-> 0, vy |-> 0, radius |-> 0,
     height |-> 0, isOnPan |-> FALSE, isDisposed |-> FALSE]

\* the pan of the first render, of the level effect and of restartLevel
NewPan ==
    [x |-> Scale(GAME_WIDTH, 35, 100), y |-> Scale(GAME_HEIGHT, 50, 100),
     width |-> Px(130), height |-> Px(28), tilt |-> 0, vx |-> 0]

levelConfig(currentLevel) == LEVEL_CONFIGS[currentLevel + 1]

getTargetPosition(currentLevel, selectedTarget) ==
    LET baseY == GAME_HEIGHT - Px(180)
        binWidth == Px(100)
        binHeight == Px(120)
        openingWidth ==
            Scale(binWidth, TARGET_CONFIGS[selectedTarget].openingWidthRatio, 100)
    IN  [x |-> Scale(GAME_WIDTH, 75, 100) - binWidth \div 2,
         y |-> baseY + levelConfig(currentLevel).binYOffset,
         width |-> binWidth,
         height |-> binHeight,
         openingWidth |-> openingWidth,
         openingY |-> baseY + levelConfig(currentLevel).binYOffset]

\* ------------------------------------------------------------------ Dump It: collision tests

\* the pan's surface height under the patty's centre
panSurfaceY(p, panState) ==
    LET panTop == panState.y - panState.height \div 2
        tiltOffset == Scale(panState.tilt, 12 * 100, 1000)
    IN  panTop - Scale(tiltOffset * (p.x - panState.x), 1, panState.width \div 2)

checkPanCollision(p, panState) ==
    LET panLeft == panState.x - panState.width \div 2
        panRight == panState.x + panState.width \div 2
        pattyBottom == p.y + p.height \div 2
        distToSurface == pattyBottom - panSurfaceY(p, panState)
    IN  IF p.x + p.radius < panLeft \/ p.x - p.radius > panRight
        THEN [onPan |-> FALSE, collision |-> FALSE]
        ELSE IF distToSurface > -Px(5) /\ distToSurface < p.height /\ p.vy >= 0
             THEN [onPan |-> TRUE, collision |-> distToSurface > 0]
             ELSE [onPan |-> FALSE, collision |-> FALSE]

\* The pass-through test over the nominal opening, without the 5 px by which
\* checkTrashBinCollision widens it: a faulty variant of binInside.
binInsideNominal(p, bin) ==
    LET binTop == bin.openingY
        binBottom == bin.y + bin.height
        openingLeft == bin.x + (bin.width - bin.openingWidth) \div 2
        openingRight == openingLeft + bin.openingWidth
    IN  /\ p.x > openingLeft /\ p.x < openingRight
        /\ p.y > binTop + Px(10)
        /\ p.y < binBottom - Px(10)
        /\ p.vy > 0

\* the pass-through test of checkTrashBinCollision
binInside(p, bin) ==
    LET binTop == bin.openingY
        binBottom == bin.y + bin.height
        openingLeft == bin.x + (bin.width - bin.openingWidth) \div 2
        openingRight == openingLeft + bin.openingWidth
        inOpeningX == p.x > openingLeft - Px(5) /\ p.x < openingRight + Px(5)
        pastOpeningY == p.y > binTop + Px(10)
        withinBinDepth == p.y < binBottom - Px(10)
    IN  inOpeningX /\ pastOpeningY /\ withinBinDepth /\ p.vy > 0

\* the wall and rim tests of checkTrashBinCollision
binSide(p, bin) ==
    LET binLeft == bin.x
        binRight == bin.x + bin.width
        binTop == bin.openingY
        binBottom == bin.y + bin.height
        openingLeft == bin.x + (bin.width - bin.openingWidth) \div 2
        openingRight == openingLeft + bin.openingWidth
        pattyInBinX == p.x + p.radius > binLeft /\ p.x - p.radius < binRight
        pattyNearBinY == p.y > binTop - p.height /\ p.y < binBottom
    IN  /\ pattyInBinX
        /\ pattyNearBinY
        /\ \/ p.x - p.radius < binLeft + Px(12) /\ p.x > binLeft - p.radius
           \/ p.x + p.radius > binRight - Px(12) /\ p.x < binRight + p.radius
           \/ p.x > binLeft /\ p.x < openingLeft + Px(5) /\ p.y < binTop + Px(25)
           \/ p.x > openingRight - Px(5) /\ p.x < binRight /\ p.y < binTop + Px(25)

checkTrashBinCollision(p, bin) ==
    IF binInside(p, bin) THEN "inside"
    ELSE IF binSide(p, bin) THEN "side"
    ELSE "none"

\* ------------------------------------------------------------------ the report of a tick

\* What the last physics tick did; written by the tick only and read by the
\* properties only.  x, y, vx and vy are the body after integration, tested
\* is the body handed to the bin or head test, after is the body the loss
\* tests read, and responses lists the
\* collision responses of the tick in the order they were applied, each with
\* the velocity before and after it.
NoTick ==
    [game |-> "none", ran |-> FALSE, x |-> 0, y |-> 0, vx |-> 0, vy |-> 0,
     radius |-> 0, height |-> 0,
     tested |-> [x |-> 0, y |-> 0, vx |-> 0, vy |-> 0],
     after |-> [x |-> 0, y |-> 0, vx |-> 0, vy |-> 0],
     hadHit |-> FALSE, responses |-> << >>, bin |-> "none", head |-> "none",
     counted |-> FALSE, lost |-> FALSE, won |-> FALSE]

Tested(p) == [x |-> p.x, y |-> p.y, vx |-> p.vx, vy |-> p.vy]

Response(kind, before, after, panVx) ==
    [kind |-> kind, vx0 |-> before.vx, vy0 |-> before.vy,
     vx1 |-> after.vx, vy1 |-> after.vy, panVx |-> panVx]

\* ------------------------------------------------------------------ Dump It: the physics tick

\* gravity, velocity, air friction
DI_integrate(p) ==
    [p EXCEPT !.vy = p.vy + GRAVITY,
              !.x = p.x + p.vx,
              !.y = p.y + (p.vy + GRAVITY),
              !.vx = Scale(p.vx, AIR_FRICTION, 1000)]

\* A pan bounce that halves vy without turning it upward: a faulty variant of
\* DI_panResponse.
DI_panResponseNoFlip(p, panState) ==
    IF checkPanCollision(p, panState).collision /\ ~p.isDisposed
    THEN LET q == [p EXCEPT !.y = panSurfaceY(p, panState) - p.height \div 2 - Px(2),
                            !.vy = Scale(Abs(p.vy), PAN_BOUNCE, 100),
                            !.vx = p.vx + Scale(panState.vx, 40, 100)]
             settled == Abs(q.vy) < 250 /\ Abs(q.vx) < 150
         IN  [hit |-> TRUE, settled |-> settled,
              p |-> IF settled
                    THEN [q EXCEPT !.isOnPan = TRUE, !.vy = 0, !.vx = 0]
                    ELSE q]
    ELSE [hit |-> FALSE, settled |-> FALSE, p |-> p]

\* the pan bounce and the catch
DI_panResponse(p, panState) ==
    IF checkPanCollision(p, panState).collision /\ ~p.isDisposed
    THEN LET q == [p EXCEPT !.y = panSurfaceY(p, panState) - p.height \div 2 - Px(2),
                            !.vy = -Scale(Abs(p.vy), PAN_BOUNCE, 100),
                            !.vx = p.vx + Scale(panState.vx, 40, 100)]
             settled == Abs(q.vy) < 250 /\ Abs(q.vx) < 150
         IN  [hit |-> TRUE, settled |-> settled,
              p |-> IF settled
                    THEN [q EXCEPT !.isOnPan = TRUE, !.vy = 0, !.vx = 0]
                    ELSE q]
    ELSE [hit |-> FALSE, settled |-> FALSE, p |-> p]

\* A bin test that counts the disposal and reflects off the rim in two
\* separate ifs instead of an if / else if: a faulty variant of DI_binResponse.
DI_binResponseBoth(p, bin) ==
    LET counted == binInside(p, bin) /\ ~p.isDisposed
        reflected == binSide(p, bin)
    IN  [collision |-> checkTrashBinCollision(p, bin),
         counted |-> counted,
         reflected |-> reflected,
         p |-> IF reflected
               THEN [p EXCEPT !.vx = Scale(-p.vx, BOUNCE, 100),
                              !.vy = Scale(Scale(-p.vy, BOUNCE, 100), 5, 10)]
               ELSE p]

\* the outcome of the bin test: a counted disposal, a rim bounce, or nothing
DI_binResponse(p, bin) ==
    LET binCollision == checkTrashBinCollision(p, bin)
    IN  IF binCollision = "inside" /\ ~p.isDisposed
        THEN [collision |-> binCollision, counted |-> TRUE, reflected |-> FALSE, p |-> p]
        ELSE IF binCollision = "side"
             THEN [collision |-> binCollision, counted |-> FALSE, reflected |-> TRUE,
                   p |-> [p EXCEPT !.vx = Scale(-p.vx, BOUNCE, 100),
                                   !.vy = Scale(Scale(-p.vy, BOUNCE, 100), 5, 10)]]
             ELSE [collision |-> binCollision, counted |-> FALSE, reflected |-> FALSE,
                   p |-> p]

\* A left edge that divides by BOUNCE instead of multiplying: a faulty variant
\* of DI_leftBound.
DI_leftBoundAmplified(p) ==
    IF p.x - p.radius < 0
    THEN [p EXCEPT !.x = p.radius, !.vx = Scale(-p.vx, 100, BOUNCE)]
    ELSE p

DI_leftBound(p) ==
    IF p.x - p.radius < 0
    THEN [p EXCEPT !.x = p.radius, !.vx = Scale(-p.vx, BOUNCE, 100)]
    ELSE p

\* A right edge that reflects the velocity and forgets to put the patty back
\* inside: a faulty variant of DI_rightBound.
DI_rightBoundNoClamp(p) ==
    IF p.x + p.radius > GAME_WIDTH
    THEN [p EXCEPT !.vx = Scale(-p.vx, BOUNCE, 100)]
    ELSE p

DI_rightBound(p) ==
    IF p.x + p.radius > GAME_WIDTH
    THEN [p EXCEPT !.x = GAME_WIDTH - p.radius, !.vx = Scale(-p.vx, BOUNCE, 100)]
    ELSE p

\* Fall off screen = fail
DI_fellOff(p) == p.y - p.radius > GAME_HEIGHT

\* Patty landed on ground (missed bin) = fail
DI_onGround(p) ==
    p.y + p.height > GAME_HEIGHT - Px(20) /\ Abs(p.vy) < 200 /\ ~p.isDisposed

\* the attempt that a rim contact ends
DI_lostOnSide(bin, p) ==
    ~bin.counted /\ (bin.collision = "side" \/ DI_fellOff(p) \/ DI_onGround(p))

\* the two tests that call handleFail, reached when the bin did not count
DI_lost(bin, p) ==
    ~bin.counted /\ (DI_fellOff(p) \/ DI_onGround(p))

\* setGameState('win'), setTimeout(nextLevel, 2000)
DI_handleWin(s) ==
    [s EXCEPT !.gameState = "win", !.pendingNextLevel = @ + 1]

\* setGameState('fail'), setTimeout(restartLevel, 1500)
DI_handleFail(s) ==
    [s EXCEPT !.gameState = "fail", !.pendingRestart = @ + 1]

\* One call of updatePhysics on the component state s: the state after it and
\* the report of what it did.
DI_updatePhysics(s) ==
    IF ~s.activePatty.exists \/ s.gameState \notin {"playing", "aiming"}
    THEN [s |-> s, r |-> NoTick]
    ELSE IF s.gameState = "aiming" /\ s.activePatty.isOnPan
    THEN [s |-> [s EXCEPT !.activePatty =
                     [@ EXCEPT !.x = s.pan.x,
                               !.y = s.pan.y - s.pan.height \div 2
                                       - s.activePatty.height \div 2 - Px(5),
                               !.vx = 0,
                               !.vy = 0]],
          r |-> [NoTick EXCEPT !.game = "dumpit"]]
    ELSE
    LET p1 == DI_integrate(s.activePatty)
        pan == DI_panResponse(p1, s.pan)
        afterPan == IF pan.settled THEN [s EXCEPT !.gameState = "aiming"] ELSE s
        bin == DI_binResponse(pan.p,
                              getTargetPosition(s.currentLevel, s.selectedTarget))
        p4 == DI_leftBound(bin.p)
        p5 == DI_rightBound(p4)
        newCount == s.disposedCount + 1
        won == bin.counted /\ newCount >= levelConfig(s.currentLevel).requiredPatties
        lost == DI_lost(bin, p5)
        responses ==
            (IF pan.hit THEN << Response("pan", p1, pan.p, s.pan.vx) >> ELSE << >>)
            \o (IF bin.reflected THEN << Response("bin", pan.p, bin.p, 0) >> ELSE << >>)
            \o (IF ~bin.counted /\ p4 # bin.p
                THEN << Response("left", bin.p, p4, 0) >> ELSE << >>)
            \o (IF ~bin.counted /\ p5 # p4
                THEN << Response("right", p4, p5, 0) >> ELSE << >>)
        report ==
            [game |-> "dumpit", ran |-> TRUE, x |-> p1.x, y |-> p1.y,
             vx |-> p1.vx, vy |-> p1.vy, radius |-> p1.radius,
             height |-> p1.height, tested |-> Tested(pan.p),
             after |-> Tested(p5), hadHit |-> FALSE, responses |-> responses,
             bin |-> bin.collision, head |-> "none", counted |-> bin.counted,
             lost |-> lost, won |-> won]
    IN  [r |-> report,
         s |-> IF bin.counted
               THEN IF won
                    THEN DI_handleWin([afterPan EXCEPT !.disposedCount = newCount])
                    ELSE [afterPan EXCEPT !.disposedCount = newCount,
                                          !.activePatty = NullPatty,
                                          !.gameState = "waiting"]
               ELSE IF lost
                    THEN DI_handleFail(afterPan)
                    ELSE [afterPan EXCEPT !.activePatty = p5]]

\* ------------------------------------------------------------------ Dump It: handlers

\* spawnPatty; vx is the draw of (Math.random() - 0.5) * 2
DI_spawnPatty(s, vx) ==
    [s EXCEPT !.activePatty =
                  [exists |-> TRUE,
                   x |-> Scale(GAME_WIDTH, 50, 100),
                   y |-> Px(80) + Px(60),
                   vx |-> vx,
                   vy |-> Px(3),
                   radius |-> ITEM_CONFIGS[s.selectedItem].radius,
                   height |-> ITEM_CONFIGS[s.selectedItem].height,
                   isOnPan |-> FALSE,
                   isDisposed |-> FALSE],
              !.gameState = "playing",
              !.aimStart = NullPoint,
              !.aimEnd = NullPoint]

DI_restartLevel(s) ==
    [s EXCEPT !.activePatty = NullPatty,
              !.disposedCount = 0,
              !.pan = NewPan,
              !.gameState = "waiting",
              !.aimStart = NullPoint,
              !.aimEnd = NullPoint]

\* The level effect (deps currentLevel): a new pan and a zero count whenever
\* the level has changed.
DI_levelEffect(before, s) ==
    IF s.currentLevel # before.currentLevel
    THEN [s EXCEPT !.pan = NewPan, !.disposedCount = 0]
    ELSE s

\* nextLevel as the closure that saw currentLevel
DI_nextLevel(s, currentLevel) ==
    [s EXCEPT !.currentLevel =
                  IF currentLevel < TOTAL_LEVELS - 1 THEN currentLevel + 1 ELSE 0,
              !.activePatty = NullPatty,
              !.disposedCount = 0,
              !.gameState = "waiting",
              !.aimStart = NullPoint,
              !.aimEnd = NullPoint]

\* handleWin is memoised with no dependencies, so the nextLevel its timer
\* calls is the one of the first render, whose currentLevel is useState's 0.
DI_firstRenderLevel == 0

\* A launch that forgets the upward boost the preview adds: a faulty variant
\* of launchPatty.
DI_launchPattyNoBoost(s, direction, power) ==
    IF ~s.activePatty.exists \/ ~s.activePatty.isOnPan THEN s
    ELSE [s EXCEPT !.activePatty =
                       [@ EXCEPT !.isOnPan = FALSE,
                                 !.vx = Scale(Scale(direction.x * power, 1, 10000),
                                              LAUNCH_POWER_MULTIPLIER, 100),
                                 !.vy = Scale(Scale(direction.y * power, 1, 10000),
                                              LAUNCH_POWER_MULTIPLIER, 100)],
                   !.gameState = "playing",
                   !.aimStart = NullPoint,
                   !.aimEnd = NullPoint]

\* direction is in ten-thousandths, power in hundredths of a pixel
DI_launchPatty(s, direction, power) ==
    IF ~s.activePatty.exists \/ ~s.activePatty.isOnPan THEN s
    ELSE [s EXCEPT !.activePatty =
                       [@ EXCEPT !.isOnPan = FALSE,
                                 !.vx = Scale(Scale(direction.x * power, 1, 10000),
                                              LAUNCH_POWER_MULTIPLIER, 100),
                                 !.vy = Scale(Scale(direction.y * power, 1, 10000),
                                              LAUNCH_POWER_MULTIPLIER, 100) - Px(6)],
                   !.gameState = "playing",
                   !.aimStart = NullPoint,
                   !.aimEnd = NullPoint]

DI_onTouchStart(s, x, y, spawnVx) ==
    IF s.gameState = "aiming" /\ s.activePatty.exists /\ s.activePatty.isOnPan
    THEN [s EXCEPT !.aimStart = Point(x, y), !.aimEnd = Point(x, y),
                   !.isDragging = FALSE]
    ELSE LET t == [s EXCEPT !.isDragging = TRUE, !.lastTouchX = x]
         IN  IF s.gameState = "waiting" THEN DI_spawnPatty(t, spawnVx) ELSE t

DI_onTouchMove(s, x, y) ==
    IF s.aimStart.set /\ s.gameState = "aiming"
    THEN [s EXCEPT !.aimEnd = Point(x, y)]
    ELSE IF ~s.isDragging THEN s
    ELSE LET deltaX == x - s.lastTouchX
         IN  [s EXCEPT !.lastTouchX = x,
                       !.pan = [@ EXCEPT
                           !.vx = Scale(deltaX, 80, 100),
                           !.x = Max(s.pan.width \div 2,
                                     Min(GAME_WIDTH - s.pan.width \div 2,
                                         s.pan.x + deltaX)),
                           !.tilt = Max(-1000, Min(1000, Scale(deltaX, 1000, 1500)))]]

\* onTouchEnd launching from a drag of 25 on
DI_onTouchEndFromThreshold(s) ==
    IF s.aimStart.set /\ s.aimEnd.set /\ s.gameState = "aiming"
    THEN LET dx == s.aimStart.x - s.aimEnd.x
             dy == s.aimStart.y - s.aimEnd.y
             distance == Sqrt(dx * dx + dy * dy)
             launched ==
                 IF distance >= Px(25)
                 THEN DI_launchPatty(s,
                          [x |-> Scale(dx, 10000, distance),
                           y |-> Scale(dy, 10000, distance)],
                          Min(distance, MAX_ARROW_LENGTH))
                 ELSE s
         IN  [launched EXCEPT !.aimStart = NullPoint, !.aimEnd = NullPoint]
    ELSE [s EXCEPT !.isDragging = FALSE,
                   !.pan = [@ EXCEPT !.tilt = 0, !.vx = 0]]

DI_onTouchEnd(s) ==
    IF s.aimStart.set /\ s.aimEnd.set /\ s.gameState = "aiming"
    THEN LET dx == s.aimStart.x - s.aimEnd.x
             dy == s.aimStart.y - s.aimEnd.y
             distance == Sqrt(dx * dx + dy * dy)
             launched ==
                 IF distance > Px(25)
                 THEN DI_launchPatty(s,
                          [x |-> Scale(dx, 10000, distance),
                           y |-> Scale(dy, 10000, distance)],
                          Min(distance, MAX_ARROW_LENGTH))
                 ELSE s
         IN  [launched EXCEPT !.aimStart = NullPoint, !.aimEnd = NullPoint]
    ELSE [s EXCEPT !.isDragging = FALSE,
                   !.pan = [@ EXCEPT !.tilt = 0, !.vx = 0]]

\* ------------------------------------------------------------------ Dump It: the aim arrow

NoArrow ==
    [set |-> FALSE, startX |-> 0, startY |-> 0, launchVx |-> 0, launchVy |-> 0,
     trajectory |-> << >>]

\* the preview loop: at most 35 points, cut when the next point leaves the screen
RECURSIVE DI_trajectoryPoints(_, _, _, _, _)
DI_trajectoryPoints(i, tx, ty, tvx, tvy) ==
    IF i >= 35 THEN << >>
    ELSE << [x |-> tx, y |-> ty] >>
         \o (IF ty + tvy > GAME_HEIGHT \/ tx + tvx < 0 \/ tx + tvx > GAME_WIDTH
             THEN << >>
             ELSE DI_trajectoryPoints(i + 1, tx + tvx, ty + tvy, tvx, tvy + GRAVITY))

DI_getAimArrow(s) ==
    IF ~s.aimStart.set \/ ~s.aimEnd.set \/ s.gameState # "aiming" THEN NoArrow
    ELSE LET dx == s.aimStart.x - s.aimEnd.x
             dy == s.aimStart.y - s.aimEnd.y
             distance == Sqrt(dx * dx + dy * dy)
         IN  IF distance < Px(15) \/ ~s.activePatty.exists THEN NoArrow
             ELSE
             LET clampedDistance == Min(distance, MAX_ARROW_LENGTH)
                 dirX == Scale(dx, 10000, distance)
                 dirY == Scale(dy, 10000, distance)
                 startX == s.activePatty.x
                 startY == s.activePatty.y - s.activePatty.height
                 launchVx == Scale(Scale(dirX * clampedDistance, 1, 10000),
                                   LAUNCH_POWER_MULTIPLIER, 100)
                 launchVy == Scale(Scale(dirY * clampedDistance, 1, 10000),
                                   LAUNCH_POWER_MULTIPLIER, 100) - Px(6)
             IN  [set |-> TRUE, startX |-> startX, startY |-> startY,
                  launchVx |-> launchVx, launchVy |-> launchVy,
                  trajectory |->
                      DI_trajectoryPoints(0, startX, startY, launchVx, launchVy)]

\* ------------------------------------------------------------------ Crazy Head: constants

CH_GRAVITY == 55

CH_AIR_FRICTION == 995

CH_BOUNCE == 30

CH_MAX_ARROW_LENGTH == 16000

CH_LAUNCH_POWER_MULTIPLIER == 22

CH_TOTAL_LEVELS == 5

CH_LEVEL_CONFIGS ==
    << [required |-> 2], [required |-> 3], [required |-> 4], [required |-> 5],
       [required |-> 7] >>

CRAZY_HEAD_ITEMS ==
    [ poop  |-> [radius |-> Px(30), hitEffect |-> "splat"],
      money |-> [radius |-> Px(28), hitEffect |-> "slap"],
      patty |-> [radius |-> Px(32), hitEffect |-> "grease"],
      teddy |-> [radius |-> Px(34), hitEffect |-> "bounce"],
      phone |-> [radius |-> Px(26), hitEffect |-> "crack"] ]

CHARACTER_X == Scale(GAME_WIDTH, 50, 100)

CHARACTER_Y == Scale(GAME_HEIGHT, 45, 100)

HEAD_RADIUS == 5500

\* HEAD_RADIUS * 0.7
HEAD_CENTER_HITBOX == Scale(HEAD_RADIUS, 70, 100)

LAUNCHER_X == Scale(GAME_WIDTH, 15, 100)

LAUNCHER_Y == Scale(GAME_HEIGHT, 85, 100)

CH_levelConfig(currentLevel) == CH_LEVEL_CONFIGS[currentLevel + 1]

\* projectileRef.current = null
NullProjectile ==
    [exists |-> FALSE, x |-> 0, y |-> 0, vx |-> 0, vy |-> 0, radius |-> 0,
     itemId |-> "poop", hasHit |-> FALSE]

\* ------------------------------------------------------------------ Crazy Head: collision test

\* Math.sqrt(dx * dx + dy * dy) < limit, for limit > 0, without the root: the
\* squares are taken only when both legs are below the limit.
DistanceBelow(dx, dy, limit) ==
    Abs(dx) < limit /\ Abs(dy) < limit /\ Sq(dx) + Sq(dy) < Sq(limit)

checkHeadCollision(p, headOffset) ==
    LET headX == CHARACTER_X + headOffset.x
        headY == CHARACTER_Y - Px(60) + headOffset.y
        dx == p.x - headX
        dy == p.y - headY
    IN  IF DistanceBelow(dx, dy, HEAD_CENTER_HITBOX + p.radius \div 2) THEN "center"
        ELSE IF DistanceBelow(dx, dy, HEAD_RADIUS + p.radius \div 2) THEN "edge"
        ELSE "none"

\* HEAD_RADIUS * 0.85, of the Crazy Head of part_000
HEAD_CENTER_HITBOX_forgiving == Scale(HEAD_RADIUS, 85, 100)

\* The two versions of Crazy Head
CrazyHeadVersions == {"crazyhead.tsx", "part_000"}

\* the distance below which checkHeadCollision answers 'center'
centerThreshold(version, radius) ==
    IF version = "crazyhead.tsx"
    THEN HEAD_CENTER_HITBOX + radius \div 2
    ELSE HEAD_CENTER_HITBOX_forgiving + radius

\* the distance below which it answers 'edge' when it did not answer 'center'
edgeThreshold(version, radius) ==
    IF version = "crazyhead.tsx"
    THEN HEAD_RADIUS + radius \div 2
    ELSE HEAD_RADIUS + Scale(radius, 30, 100)

\* checkHeadCollision of the given version
checkHeadCollisionOf(version, p, headOffset) ==
    LET headX == CHARACTER_X + headOffset.x
        headY == CHARACTER_Y - Px(60) + headOffset.y
        dx == p.x - headX
        dy == p.y - headY
    IN  IF DistanceBelow(dx, dy, centerThreshold(version, p.radius)) THEN "center"
        ELSE IF DistanceBelow(dx, dy, edgeThreshold(version, p.radius)) THEN "edge"
        ELSE "none"

\* no call made
NoHeadCheck ==
    [version |-> "none", itemId |-> "none", radius |-> 0, dx |-> 0, dy |-> 0,
     answer |-> "unasked"]

\* ------------------------------------------------------------------ Crazy Head: handlers

CH_spawnProjectile(s) ==
    [s EXCEPT !.projectile =
                  [exists |-> TRUE, x |-> LAUNCHER_X, y |-> LAUNCHER_Y - Px(40),
                   vx |-> 0, vy |-> 0,
                   radius |-> CRAZY_HEAD_ITEMS[s.selectedItemId].radius,
                   itemId |-> s.selectedItemId, hasHit |-> FALSE],
              !.gameState = "aiming"]

CH_launchProjectile(s, direction, power) ==
    IF ~s.projectile.exists THEN s
    ELSE [s EXCEPT !.projectile =
                       [@ EXCEPT !.vx = Scale(Scale(direction.x * power, 1, 10000),
                                              CH_LAUNCH_POWER_MULTIPLIER, 100),
                                 !.vy = Scale(Scale(direction.y * power, 1, 10000),
                                              CH_LAUNCH_POWER_MULTIPLIER, 100) - Px(8)],
                   !.gameState = "flying",
                   !.aimStart = NullPoint,
                   !.aimEnd = NullPoint]

\* The head recoil of applyHitEffect and its reset timer; the hit marks and
\* the reaction are drawn only.
CH_applyHitEffect(s, p) ==
    LET hitEffect == CRAZY_HEAD_ITEMS[p.itemId].hitEffect
    IN  IF hitEffect \in {"slap", "crack"}
        THEN [s EXCEPT !.headOffset =
                           [x |-> IF p.vx > 0 THEN Px(8) ELSE -Px(8), y |-> -Px(5)],
                       !.pendingHeadReset = @ + 1]
        ELSE IF hitEffect = "bounce"
        THEN [s EXCEPT !.headOffset = [x |-> 0, y |-> -Px(10)],
                       !.pendingHeadReset = @ + 1]
        ELSE s

\* The win timer carries the level its nextLevel closure saw.
CH_handleHeadshot(s) ==
    LET newCount == s.headshots + 1
    IN  IF newCount >= CH_levelConfig(s.currentLevel).required
        THEN [s EXCEPT !.headshots = newCount,
                       !.gameState = "win",
                       !.pendingNextLevel = Append(@, s.currentLevel)]
        ELSE [s EXCEPT !.headshots = newCount, !.pendingReady = @ + 1]

CH_restartLevel(s) ==
    [s EXCEPT !.headshots = 0,
              !.projectile = NullProjectile,
              !.headOffset = [x |-> 0, y |-> 0],
              !.aimStart = NullPoint,
              !.aimEnd = NullPoint,
              !.gameState = IF s.hasStartedPlayingRef THEN "ready" ELSE "setup"]

CH_handleMiss(s) ==
    [s EXCEPT !.gameState = "fail", !.pendingRestart = @ + 1]

CH_nextLevel(s, currentLevel) ==
    [s EXCEPT !.currentLevel =
                  IF currentLevel < CH_TOTAL_LEVELS - 1 THEN currentLevel + 1 ELSE 0,
              !.headshots = 0,
              !.projectile = NullProjectile,
              !.headOffset = [x |-> 0, y |-> 0],
              !.aimStart = NullPoint,
              !.aimEnd = NullPoint,
              !.gameState = "ready"]

CH_onTouchStart(s, x, y) ==
    IF s.gameState = "setup" THEN s
    ELSE IF s.gameState = "ready"
    THEN [CH_spawnProjectile(s) EXCEPT !.aimStart = Point(x, y),
                                       !.aimEnd = Point(x, y)]
    ELSE IF s.gameState = "aiming"
    THEN [s EXCEPT !.aimStart = Point(x, y), !.aimEnd = Point(x, y)]
    ELSE s

CH_onTouchMove(s, x, y) ==
    IF s.gameState # "aiming" \/ ~s.aimStart.set THEN s
    ELSE [s EXCEPT !.aimEnd = Point(x, y)]

CH_onTouchEnd(s) ==
    IF s.gameState # "aiming" \/ ~s.aimStart.set \/ ~s.aimEnd.set THEN s
    ELSE LET dx == s.aimStart.x - s.aimEnd.x
             dy == s.aimStart.y - s.aimEnd.y
             distance == Sqrt(dx * dx + dy * dy)
         IN  IF distance > Px(25)
             THEN CH_launchProjectile(s,
                      [x |-> Scale(dx, 10000, distance),
                       y |-> Scale(dy, 10000, distance)],
                      Min(distance, CH_MAX_ARROW_LENGTH))
             ELSE [s EXCEPT !.aimStart = NullPoint,
                            !.aimEnd = NullPoint,
                            !.projectile = NullProjectile,
                            !.gameState = "ready"]

\* ------------------------------------------------------------------ Crazy Head: the aim arrow

RECURSIVE CH_trajectoryPoints(_, _, _, _, _)
CH_trajectoryPoints(i, tx, ty, tvx, tvy) ==
    IF i >= 35 THEN << >>
    ELSE << [x |-> tx, y |-> ty] >>
         \o (IF ty + tvy > GAME_HEIGHT \/ tx + tvx < 0 \/ tx + tvx > GAME_WIDTH
             THEN << >>
             ELSE CH_trajectoryPoints(i + 1, tx + tvx, ty + tvy, tvx,
                                      tvy + CH_GRAVITY))

CH_getAimArrow(s) ==
    IF ~s.aimStart.set \/ ~s.aimEnd.set \/ s.gameState # "aiming"
       \/ ~s.projectile.exists
    THEN NoArrow
    ELSE LET dx == s.aimStart.x - s.aimEnd.x
             dy == s.aimStart.y - s.aimEnd.y
             distance == Sqrt(dx * dx + dy * dy)
         IN  IF distance < Px(15) THEN NoArrow
             ELSE
             LET clampedDistance == Min(distance, CH_MAX_ARROW_LENGTH)
                 dirX == Scale(dx, 10000, distance)
                 dirY == Scale(dy, 10000, distance)
                 startX == s.projectile.x
                 startY == s.projectile.y
                 launchVx == Scale(Scale(dirX * clampedDistance, 1, 10000),
                                   CH_LAUNCH_POWER_MULTIPLIER, 100)
                 launchVy == Scale(Scale(dirY * clampedDistance, 1, 10000),
                                   CH_LAUNCH_POWER_MULTIPLIER, 100) - Px(8)
             IN  [set |-> TRUE, startX |-> startX, startY |-> startY,
                  launchVx |-> launchVx, launchVy |-> launchVy,
                  trajectory |->
                      CH_trajectoryPoints(0, startX, startY, launchVx, launchVy)]

\* ------------------------------------------------------------------ Crazy Head: the physics tick

CH_integrate(p) ==
    [p EXCEPT !.vy = p.vy + CH_GRAVITY,
              !.x = p.x + p.vx,
              !.y = p.y + (p.vy + CH_GRAVITY),
              !.vx = Scale(p.vx, CH_AIR_FRICTION, 1000)]

\* the head test of a projectile that has not hit yet
CH_headResponse(p, headOffset) ==
    LET collision == IF p.hasHit THEN "none" ELSE checkHeadCollision(p, headOffset)
    IN  IF collision = "center"
        THEN [collision |-> collision, p |-> [p EXCEPT !.hasHit = TRUE]]
        ELSE IF collision = "edge"
        THEN [collision |-> collision,
              p |-> [p EXCEPT !.vx = Scale(-p.vx, CH_BOUNCE, 100),
                              !.vy = Scale(Scale(-p.vy, CH_BOUNCE, 100), 5, 10)]]
        ELSE [collision |-> collision, p |-> p]

CH_leftBound(p) ==
    IF p.x - p.radius < 0
    THEN [p EXCEPT !.x = p.radius, !.vx = Scale(-p.vx, CH_BOUNCE, 100)]
    ELSE p

CH_rightBound(p) ==
    IF p.x + p.radius > GAME_WIDTH
    THEN [p EXCEPT !.x = GAME_WIDTH - p.radius, !.vx = Scale(-p.vx, CH_BOUNCE, 100)]
    ELSE p

\* Fall off screen or hit ground = miss
CH_fellOff(p) == p.y > GAME_HEIGHT + Px(50)

\* Hit ground (bottom of screen)
CH_onGround(p) == p.y + p.radius > GAME_HEIGHT - Px(30) /\ ~p.hasHit

CH_updatePhysics(s) ==
    IF ~s.projectile.exists \/ s.gameState # "flying"
    THEN [s |-> s, r |-> NoTick]
    ELSE
    LET p1 == CH_integrate(s.projectile)
        head == CH_headResponse(p1, s.headOffset)
        p4 == CH_leftBound(head.p)
        p5 == CH_rightBound(p4)
        headshot == head.collision = "center"
        afterHeadshot == CH_handleHeadshot(CH_applyHitEffect(s, head.p))
        lost == ~headshot /\ (CH_fellOff(p5) \/ CH_onGround(p5))
        responses ==
            (IF head.collision = "edge"
             THEN << Response("head", p1, head.p, 0) >> ELSE << >>)
            \o (IF ~headshot /\ p4 # head.p
                THEN << Response("left", head.p, p4, 0) >> ELSE << >>)
            \o (IF ~headshot /\ p5 # p4
                THEN << Response("right", p4, p5, 0) >> ELSE << >>)
        report ==
            [game |-> "crazyhead", ran |-> TRUE, x |-> p1.x, y |-> p1.y,
             vx |-> p1.vx, vy |-> p1.vy, radius |-> p1.radius,
             height |-> 0, tested |-> Tested(p1), after |-> Tested(p5),
             hadHit |-> s.projectile.hasHit,
             responses |-> responses, bin |-> "none", head |-> head.collision,
             counted |-> headshot, lost |-> lost,
             won |-> headshot /\ afterHeadshot.gameState = "win"]
    IN  [r |-> report,
         s |-> IF headshot
               THEN [afterHeadshot EXCEPT !.projectile = head.p]
               ELSE IF lost
                    THEN CH_handleMiss(s)
                    ELSE [s EXCEPT !.projectile = p5]]

\* ------------------------------------------------------------------ the environment

\* how many patties a run dispenses and projectiles it throws, and how many
\* touch moves drag the pan
MaxSpawns == 2

MaxPanMoves == 1

\* the most animation frames that run while one touch is held
MaxHoldTicks == 1

\* the draws of (Math.random() - 0.5) * 2 at spawn
SpawnVx == {-50, 50}

\* Where the finger goes down in Dump It, and where it moves to.  The drags
\* from the one to the others are one of exactly 25 px, a throw that reaches the
\* bin and a throw of more than MAX_ARROW_LENGTH that leaves the screen; as pan
\* drags they move the pan left by 15 px, by 80 px and against the screen edge.
DI_TouchDown == { <<20000, 30000>> }

DI_TouchMoves == { <<18500, 28000>>, <<12000, 27500>>, <<4000, 26500>> }

\* Where the finger goes down in Crazy Head, and where it moves to.  The drags
\* are one of exactly 25 px, a lob whose free path meets the head centre on its
\* 25th tick, and a lob of more than MAX_ARROW_LENGTH that comes down on the
\* head.
CH_TouchDown == { <<10000, 30000>> }

CH_TouchMoves == { <<8500, 28000>>, <<7799, 34346>>, <<7250, 46000>> }

\* the items the player picks in the selector bar
CH_Picks == {"poop", "teddy"}

VARIABLES
    currentScreen,  \* MainMenu's screen
    dumpIt,         \* the state and refs of PattyDisposalGame
    crazyHead,      \* the state and refs of CrazyHeadGame
    touching,       \* a finger is on the game view
    lastTick,       \* the report of the tick just run, NoTick after any other step
    lastPreview,    \* the last aim arrow the renderer drew
    flight,         \* the last launch and the ticks flown since
    budget,         \* what the environment has used of its bounds
    tracker,        \* the StabilityTracker of a dwell zone
    lastTouch,      \* the report of the touch handler just run, NoTouch after any other step
    loop,           \* the animation frames and the game-loop effect of a game
    flushIt,        \* the stream of Flush It
    headCheck,      \* a call of checkHeadCollision and its answer
    bowl,           \* the objects, the score and the best score of Flush It
    toilet,         \* the state and refs of Toilet Chaos
    deadeye         \* the state and refs of Deadeye

vars ==
    << currentScreen, dumpIt, crazyHead, touching, lastTick, lastPreview,
       flight, budget, tracker, lastTouch, loop, flushIt,
                    headCheck, bowl, toilet, deadeye >>

\* consecutive rim contacts are counted up to here
MaxSides == 3

\* The record of a flight: the velocity and position it was launched with, the
\* length of the drag that launched it, the ticks flown since, whether no
\* collision response has touched it yet, whether its free path meets the
\* head centre, and how many ticks in a row have ended in a rim contact.
NoFlight ==
    [launched |-> FALSE, game |-> "none", ticks |-> 0, clean |-> TRUE,
     vx0 |-> 0, vy0 |-> 0, x0 |-> 0, y0 |-> 0, drag |-> 0, aimed |-> FALSE,
     sides |-> 0]

\* the length of the drag from aimStart to aimEnd
Drag(s) ==
    IF s.aimStart.set /\ s.aimEnd.set
    THEN Sqrt(Sq(s.aimStart.x - s.aimEnd.x) + Sq(s.aimStart.y - s.aimEnd.y))
    ELSE 0

\* The report of a touch handler: which one ran, whether it found an aim in
\* progress (the state 'aiming' with both aim points set), and the legs of
\* that aim's drag.
NoTouch ==
    [game |-> "none", kind |-> "none", aiming |-> FALSE, dx |-> 0, dy |-> 0]

Touch(game, kind, s) ==
    LET aiming == s.gameState = "aiming" /\ s.aimStart.set /\ s.aimEnd.set
    IN  [game |-> game, kind |-> kind, aiming |-> aiming,
         dx |-> IF aiming THEN s.aimStart.x - s.aimEnd.x ELSE 0,
         dy |-> IF aiming THEN s.aimStart.y - s.aimEnd.y ELSE 0]

\* A direction of the stream, in hundredths; nan is the result of 0 / 0
Direction(x, y) == [x |-> x, y |-> y, nan |-> FALSE]

NaNDirection == [x |-> 0, y |-> 0, nan |-> TRUE]

\* { x: dx / dist, y: dy / dist }
Normalized(dx, dy, dist) ==
    IF dist = 0 THEN NaNDirection
    ELSE Direction(Scale(dx, 100, dist), Scale(dy, 100, dist))

BOWL_CENTER_X == GAME_WIDTH \div 2

BOWL_CENTER_Y == Scale(GAME_HEIGHT, 50, 100)

BOWL_RADIUS_Y == Scale(GAME_HEIGHT, 35, 100)

\* FlushItGame as mounted: the selection screen, the stream off
FI_initial ==
    [gameState |-> "select", isFlowing |-> FALSE,
     flowOrigin |-> [x |-> BOWL_CENTER_X,
                     y |-> BOWL_CENTER_Y - Scale(BOWL_RADIUS_Y, 50, 100)],
     flowDirection |-> Direction(0, 100), flowStrength |-> 0]

\* startGame; the objects it spawns are not part of the stream
FI_startGame(s) == [s EXCEPT !.gameState = "playing"]

\* the length of (dx, dy)
FI_dist(dx, dy) == Sqrt(dx * dx + dy * dy)

\* onTouchStart of Flush It in the window win: the stream starts at the
\* nozzle, towards the touch
FI_onTouchStartIn(win, s, x, y) ==
    IF s.gameState # "playing" THEN s
    ELSE LET origin == [x |-> win.w \div 2,
                        y |-> Scale(win.h, 50, 100)
                                - Scale(Scale(win.h, 35, 100), 60, 100)]
             dx == x - origin.x
             dy == y - origin.y
             dist == FI_dist(dx, dy)
         IN  [s EXCEPT !.isFlowing = TRUE,
                       !.flowOrigin = origin,
                       !.flowDirection = Normalized(dx, dy, dist),
                       !.flowStrength = 50]

\* onTouchStart of Flush It in the window of the model
FI_onTouchStart(s, x, y) ==
    FI_onTouchStartIn([w |-> GAME_WIDTH, h |-> GAME_HEIGHT], s, x, y)

\* onTouchMove of Flush It: the stream turns once the finger is 10 from its origin
FI_onTouchMove(s, x, y) ==
    IF s.gameState # "playing" \/ ~s.isFlowing THEN s
    ELSE LET dx == x - s.flowOrigin.x
             dy == y - s.flowOrigin.y
             dist == FI_dist(dx, dy)
         IN  IF dist > Px(10)
             THEN [s EXCEPT !.flowDirection = Normalized(dx, dy, dist),
                            !.flowStrength = Min(100, Scale(dist, 1, 150))]
             ELSE s

\* onTouchEnd of Flush It
FI_onTouchEnd(s) == [s EXCEPT !.isFlowing = FALSE, !.flowStrength = 0]

\* ------------------------------------------------------------------ Flush It: the bowl

\* The bowl in a window win = [w, h]
BowlCenterX(win) == win.w \div 2

BowlCenterY(win) == Scale(win.h, 50, 100)

BowlRadiusX(win) == Scale(win.w, 42, 100)

BowlRadiusY(win) == Scale(win.h, 35, 100)

DrainY(win) == BowlCenterY(win) + Scale(BowlRadiusY(win), 85, 100)

DRAIN_RADIUS == 3500

\* ICON_CONFIGS[...].stickiness, in hundredths
ICON_STICKINESS == [poop |-> 80, teddy |-> 50, smiley |-> 30, custom |-> 40]

\* the length of (dx, dy), in hundredths of a pixel, taken on tenths
Length(dx, dy) == 10 * Sqrt(Sq(dx \div 10) + Sq(dy \div 10))

\* isInDrain
isInDrain(win, obj) ==
    DistanceBelow(obj.x - BowlCenterX(win), obj.y - DrainY(win), DRAIN_RADIUS + Px(15))

\* One object of spawnObjects, at the angle whose cosine and sine are cos and
\* sin (thousandths), with the draws fx and fy (hundredths) of the two radii
FlushObject(win, cos, sin, fx, fy) ==
    [x |-> BowlCenterX(win) + Scale(Scale(BowlRadiusX(win), fx, 100), cos, 1000),
     y |-> BowlCenterY(win)
             + Scale(Scale(Scale(BowlRadiusY(win), fy, 100), sin, 1000), 70, 100),
     vx |-> 0, vy |-> 0, nan |-> FALSE, opacity |-> 1000000,
     stuck |-> TRUE, washPower |-> 0, isFlushing |-> FALSE, scored |-> 0]

\* pointToSegmentDistance from the object to the stream from (x1, y1) to
\* (x2, y2): the distance, the closest x and t in thousandths
pointToSegmentDistance(px, py, x1, y1, x2, y2) ==
    LET dx == Scale(x2 - x1, 1, 100)
        dy == Scale(y2 - y1, 1, 100)
        lengthSq == dx * dx + dy * dy
    IN  IF lengthSq = 0
        THEN [distance |-> Length(px - x1, py - y1), closestX |-> x1, t |-> 0]
        ELSE LET dot == Scale(px - x1, 1, 100) * dx + Scale(py - y1, 1, 100) * dy
                 t == Max(0, Min(1000, Scale(dot, 1000, lengthSq)))
                 closestX == x1 + Scale(x2 - x1, t, 1000)
                 closestY == y1 + Scale(y2 - y1, t, 1000)
             IN  [distance |-> Length(px - closestX, py - closestY),
                  closestX |-> closestX, t |-> t]

\* The force of the stream st on the object: whether it is within the
\* stream's influence, and effectiveForce in thousandths.  With a NaN
\* direction the distance is NaN and no comparison with it is true.
FI_streamForce(obj, st) ==
    IF ~st.isFlowing \/ st.flowStrength <= 0 \/ st.flowDirection.nan
    THEN [within |-> FALSE, force |-> 0, bias |-> 0]
    ELSE LET streamLength == 180 + Scale(st.flowStrength, 120, 100)
             seg == pointToSegmentDistance(obj.x, obj.y,
                        st.flowOrigin.x, st.flowOrigin.y,
                        st.flowOrigin.x + st.flowDirection.x * streamLength,
                        st.flowOrigin.y + st.flowDirection.y * streamLength)
             STREAM_INFLUENCE_RADIUS == Px(70) + st.flowStrength * 40
             proximityFactor == 1000 - Scale(seg.distance, 1000, STREAM_INFLUENCE_RADIUS)
             streamPositionFactor == 1000 - Scale(seg.t, 30, 100)
             baseForce == Scale(Scale(proximityFactor * streamPositionFactor, 1, 1000),
                                st.flowStrength, 100)
         IN  IF seg.distance < STREAM_INFLUENCE_RADIUS
             THEN [within |-> TRUE,
                   force |-> Scale(Max(baseForce, 150), 120, 100),
                   bias |-> IF obj.x - seg.closestX > 0 THEN 3 ELSE -3]
             ELSE [within |-> FALSE, force |-> 0, bias |-> 0]

\* DETACH_THRESHOLD, in 1/100000
DETACH_THRESHOLD(icon) == 40000 + ICON_STICKINESS[icon] * 400

\* the push of the stream with force f, along it and across it
FI_push(obj, dir, f) ==
    [obj EXCEPT !.vx = @ + Scale(dir.x * f.force, 8, 10000)
                         + Scale(-dir.y * f.force, f.bias, 10000),
                !.vy = @ + Scale(dir.y * f.force, 8, 10000)
                         + Scale(dir.x * f.force, f.bias, 10000),
                !.washPower = IF obj.stuck THEN @ + f.force * 8 ELSE @]

\* a stuck object is shaken until it is washed to 0.8 of the threshold; jx
\* and jy are the draws of (Math.random() - 0.5), in hundredths
FI_shake(obj, f, icon, jx, jy) ==
    IF obj.stuck /\ obj.washPower < Scale(DETACH_THRESHOLD(icon), 80, 100)
    THEN [obj EXCEPT !.x = @ + Scale(jx * f.force, 2, 1000),
                     !.y = @ + Scale(jy * f.force, 2, 1000)]
    ELSE obj

\* a stuck object washed to the threshold comes off with a push
FI_detach(obj, dir, icon) ==
    IF obj.stuck /\ obj.washPower >= DETACH_THRESHOLD(icon)
    THEN [obj EXCEPT !.stuck = FALSE, !.vx = @ + dir.x * 2, !.vy = @ + dir.y * 2]
    ELSE obj

\* the object under a stream of force f
FI_washBy(obj, dir, f, icon, jx, jy) ==
    IF ~f.within THEN obj
    ELSE CHOOSE freed \in
            {FI_detach(shaken, dir, icon) :
                shaken \in {FI_shake(pushed, f, icon, jx, jy) :
                    pushed \in {FI_push(obj, dir, f)}}} : TRUE

\* the object under the stream, if it is within the stream's influence
FI_wash(obj, st, icon, jx, jy) ==
    CHOOSE washed \in
        {FI_washBy(obj, st.flowDirection, f, icon, jx, jy) :
            f \in {FI_streamForce(obj, st)}} : TRUE

\* the pull towards the drain, on an object that is not stuck; an object on
\* the drain's centre divides by 0
FI_drainPull(win, obj) ==
    LET toDrainX == BowlCenterX(win) - obj.x
        toDrainY == DrainY(win) - obj.y
        toDrainDist == Length(toDrainX, toDrainY)
    IN  IF obj.stuck THEN obj
        ELSE IF toDrainDist = 0 THEN [obj EXCEPT !.nan = TRUE]
        ELSE [obj EXCEPT !.vx = @ + Scale(toDrainX, 12, toDrainDist),
                         !.vy = @ + Scale(toDrainY, 18, toDrainDist)]

\* friction and the move
FI_move(obj) ==
    LET friction == IF obj.stuck THEN 70 ELSE 96
        vx == Scale(obj.vx, friction, 100)
        vy == Scale(obj.vy, friction, 100)
    IN  [obj EXCEPT !.vx = vx, !.vy = vy,
                    !.x = @ + (IF obj.stuck THEN Scale(vx, 30, 100) ELSE vx),
                    !.y = @ + (IF obj.stuck THEN Scale(vy, 30, 100) ELSE vy)]

\* the ellipse of the bowl: beyond 0.92 of it the object is put back on 0.9
\* along its angle and bounces softly
FI_keepInBowl(win, obj) ==
    LET relX == Scale(obj.x - BowlCenterX(win), 1000, BowlRadiusX(win))
        relY == Scale(obj.y - BowlCenterY(win), 1000, BowlRadiusY(win))
        ellipseDist == Sqrt(relX * relX + relY * relY)
    IN  IF ellipseDist > 920
        THEN [obj EXCEPT
                 !.x = BowlCenterX(win)
                         + Scale(Scale(BowlRadiusX(win), 90, 100) * relX, 1, ellipseDist),
                 !.y = BowlCenterY(win)
                         + Scale(Scale(BowlRadiusY(win), 90, 100) * relY, 1, ellipseDist),
                 !.vx = Scale(@, -20, 100),
                 !.vy = Scale(@, -20, 100)]
        ELSE obj

\* a capture that reaches DRAIN_RADIUS only
FI_enterDrainNarrow(win, obj) ==
    IF ~obj.stuck /\ DistanceBelow(obj.x - BowlCenterX(win), obj.y - DrainY(win),
                                   DRAIN_RADIUS)
    THEN [obj EXCEPT !.isFlushing = TRUE, !.scored = @ + 1] ELSE obj

\* the capture: an object that is not stuck and is in the drain starts
\* flushing and scores; scored counts the times the object has scored
FI_enterDrain(win, obj) ==
    IF ~obj.stuck /\ isInDrain(win, obj)
    THEN [obj EXCEPT !.isFlushing = TRUE, !.scored = @ + 1]
    ELSE obj

\* a map that does not set the flushing objects apart
FI_updateObjectAgain(win, obj, st, icon, jx, jy) ==
    CHOOSE entered \in
        {FI_enterDrain(win, kept) : kept \in
            {FI_keepInBowl(win, moved) : moved \in
                {FI_move(pulled) : pulled \in
                    {FI_drainPull(win, washed) : washed \in
                        {FI_wash(obj, st, icon, jx, jy)}}}}} : TRUE

\* the map of updatePhysics on one object
FI_updateObject(win, obj, st, icon, jx, jy) ==
    IF obj.isFlushing
    THEN [obj EXCEPT !.opacity = Scale(@, 90, 100), !.y = @ + Px(3)]
    ELSE CHOOSE entered \in
             {FI_enterDrain(win, kept) : kept \in
                 {FI_keepInBowl(win, moved) : moved \in
                     {FI_move(pulled) : pulled \in
                         {FI_drainPull(win, washed) : washed \in
                             {FI_wash(obj, st, icon, jx, jy)}}}}} : TRUE

\* spawnObjects and startGame.  The angles are those of 8 objects with the
\* draw 0 of the angle's random part; fx and fy are the draws of the radii.
SpawnAngles ==
    << [cos |-> 1000, sin |-> 0], [cos |-> 707, sin |-> 707],
       [cos |-> 0, sin |-> 1000], [cos |-> -707, sin |-> 707],
       [cos |-> -1000, sin |-> 0], [cos |-> -707, sin |-> -707],
       [cos |-> 0, sin |-> -1000], [cos |-> 707, sin |-> -707] >>

FI_spawnObjects(b, fx, fy) ==
    [b EXCEPT !.objects = [i \in 1 .. Len(SpawnAngles) |->
                              FlushObject(b.win, SpawnAngles[i].cos,
                                          SpawnAngles[i].sin, fx, fy)],
              !.score = 0,
              !.spawned = Len(SpawnAngles),
              !.flushed = 0,
              !.removedUnflushed = FALSE]

\* the report of a tick of Flush It: the objects captured in it, and whether
\* an object that was not flushing ended it in the drain without being captured
NoBowlTick == [ran |-> FALSE, captured |-> 0, missed |-> FALSE, completed |-> FALSE]

\* updatePhysics of Flush It on the bowl b with the stream st, the state after
\* it: the objects, the score, the save it starts and the gameState it sets
FI_updatePhysics(b, st, jx, jy) ==
    LET updated == [i \in 1 .. Len(b.objects) |->
                       FI_updateObject(b.win, b.objects[i], st, b.icon, jx, jy)]
        entered == {i \in 1 .. Len(b.objects) :
                       updated[i].isFlushing /\ ~b.objects[i].isFlushing}
        missed == \E i \in 1 .. Len(b.objects) :
                     /\ ~b.objects[i].isFlushing
                     /\ isInDrain(b.win, updated[i])
                     /\ ~updated[i].isFlushing
        score == b.score + Cardinality({i \in 1 .. Len(b.objects) :
                                           updated[i].scored > b.objects[i].scored})
        remaining == SelectSeq(updated, LAMBDA o : o.opacity > 50000)
        complete == remaining = << >> /\ st.gameState = "playing"
    IN  [b |-> [b EXCEPT
                   !.objects = remaining,
                   !.score = score,
                   !.saves = IF complete /\ score > b.bestScoreRef
                             THEN Append(@, score) ELSE @,
                   !.flushed = @ + Cardinality(entered),
                   !.removedUnflushed =
                       @ \/ \E i \in 1 .. Len(updated) :
                                updated[i].opacity <= 50000 /\ ~updated[i].isFlushing,
                   !.tick = [ran |-> TRUE, captured |-> Cardinality(entered),
                             missed |-> missed, completed |-> complete]],
         gameState |-> IF complete THEN "complete" ELSE st.gameState]

\* the continuation of saveBestScore(newBest) after its setItem
FI_saveDone(b, i) ==
    [b EXCEPT !.stored = b.saves[i],
              !.bestScoreRef = b.saves[i],
              !.saves = SubSeq(@, 1, i - 1) \o SubSeq(@, i + 1, Len(@))]

\* ------------------------------------------------------------------ Deadeye

\* the scope area
SCOPE_MARGIN == Px(60)

SCOPE_TOP == Px(120)

SCOPE_BOTTOM == GAME_HEIGHT - Px(150)

\* the size of the default target, 'poop'
DE_TARGET_SIZE == Px(50)

\* spawnTarget with the draws d: the side, the place along it and the size
\* in hundredths, the speed and the cross speed in hundredths of a pixel.
\* opacity is in thousandths.
DE_spawnTarget(d) ==
    LET alongX == SCOPE_MARGIN + Scale(GAME_WIDTH - SCOPE_MARGIN * 2, d.along, 100)
        alongY == SCOPE_TOP + Scale(SCOPE_BOTTOM - SCOPE_TOP, d.along, 100)
    IN  [x |-> CASE d.side = 0 -> alongX
                 [] d.side = 1 -> GAME_WIDTH - SCOPE_MARGIN
                 [] d.side = 2 -> alongX
                 [] OTHER -> SCOPE_MARGIN,
         y |-> CASE d.side = 0 -> SCOPE_TOP
                 [] d.side = 1 -> alongY
                 [] d.side = 2 -> SCOPE_BOTTOM
                 [] OTHER -> alongY,
         vx |-> CASE d.side = 0 -> d.cross
                  [] d.side = 1 -> -(d.speed \div 2)
                  [] d.side = 2 -> d.cross
                  [] OTHER -> d.speed \div 2,
         vy |-> CASE d.side = 0 -> d.speed \div 2
                  [] d.side = 1 -> d.cross
                  [] d.side = 2 -> -(d.speed \div 2)
                  [] OTHER -> d.cross,
         size |-> Scale(DE_TARGET_SIZE, d.size, 100),
         isHit |-> FALSE, hitTime |-> 0, opacity |-> 1000]

\* The Deadeye component before a game: select screen, no targets.  hits
\* counts the targets marked hit since the game started, shot reports the
\* last shot: the targets that were not hit and within its radius, and the
\* points it scored.
NoShot == [fired |-> FALSE, inRadius |-> 0, scored |-> 0]

DE_initial ==
    [gameState |-> "select", targets |-> << >>, score |-> 0, time |-> 0,
     lastSpawn |-> 0,
     crosshair |-> [x |-> GAME_WIDTH \div 2, y |-> GAME_HEIGHT \div 2],
     isAiming |-> FALSE, aimStart |-> [x |-> 0, y |-> 0],
     bulletFiring |-> FALSE, pendingBullet |-> 0,
     bestScoreRef |-> 0, stored |-> 0, saves |-> << >>,
     hits |-> 0, shot |-> NoShot]

\* startGame: five targets from spawnTarget, each moved to a drawn place
\* inside the scope; places[i] holds the two draws in hundredths
DE_startGame(s, draws, places) ==
    [s EXCEPT
        !.targets =
            [i \in 1 .. 5 |->
                [DE_spawnTarget(draws[i]) EXCEPT
                    !.x = SCOPE_MARGIN + Px(50)
                            + Scale(GAME_WIDTH - SCOPE_MARGIN * 2 - Px(100),
                                    places[i][1], 100),
                    !.y = SCOPE_TOP + Px(50)
                            + Scale(SCOPE_BOTTOM - SCOPE_TOP - Px(100),
                                    places[i][2], 100)]],
        !.score = 0,
        !.hits = 0,
        !.time = 0,
        !.lastSpawn = 0,
        !.crosshair = [x |-> GAME_WIDTH \div 2, y |-> GAME_HEIGHT \div 2],
        !.gameState = "playing"]

\* the test of checkHit on one target: dist < target.size * 0.6
DE_inHitRadius(target, shootX, shootY) ==
    DistanceBelow(shootX - target.x, shootY - target.y, Scale(target.size, 60, 100))

\* a checkHit that does not pass over the targets already hit
DE_hitsAgain(target, shootX, shootY) == DE_inHitRadius(target, shootX, shootY)

\* whether checkHit marks the target
DE_hits(target, shootX, shootY) ==
    ~target.isHit /\ DE_inHitRadius(target, shootX, shootY)

DE_checkHit(s, shootX, shootY) ==
    LET marked == {i \in 1 .. Len(s.targets) : DE_hits(s.targets[i], shootX, shootY)}
    IN  [s EXCEPT
            !.targets = [i \in 1 .. Len(s.targets) |->
                            IF i \in marked
                            THEN [s.targets[i] EXCEPT !.isHit = TRUE,
                                                      !.hitTime = s.time]
                            ELSE s.targets[i]],
            !.score = @ + Cardinality(marked),
            !.hits = @ + Cardinality({i \in marked : ~s.targets[i].isHit}),
            !.shot = [fired |-> TRUE,
                      inRadius |-> Cardinality(
                          {i \in 1 .. Len(s.targets) :
                              /\ ~s.targets[i].isHit
                              /\ DE_inHitRadius(s.targets[i], shootX, shootY)}),
                      scored |-> Cardinality(marked)]]

\* fireBullet: nothing while a bullet is firing; the 150 ms timer resets it
DE_fireBullet(s) ==
    IF s.bulletFiring THEN s
    ELSE [DE_checkHit(s, s.crosshair.x, s.crosshair.y) EXCEPT
             !.bulletFiring = TRUE, !.pendingBullet = @ + 1]

DE_onTouchStart(s, x, y) ==
    IF s.gameState # "playing" THEN s
    ELSE [s EXCEPT !.isAiming = TRUE, !.aimStart = [x |-> x, y |-> y]]

\* the crosshair follows the drag at 0.15 of it
DE_onTouchMove(s, x, y) ==
    IF s.gameState # "playing" \/ ~s.isAiming THEN s
    ELSE [s EXCEPT
             !.crosshair =
                 [x |-> Max(SCOPE_MARGIN,
                            Min(GAME_WIDTH - SCOPE_MARGIN,
                                s.crosshair.x + Scale(x - s.aimStart.x, 15, 100))),
                  y |-> Max(SCOPE_TOP,
                            Min(SCOPE_BOTTOM,
                                s.crosshair.y + Scale(y - s.aimStart.y, 15, 100)))],
             !.aimStart = [x |-> x, y |-> y]]

DE_onTouchEnd(s) ==
    [(IF s.isAiming THEN DE_fireBullet(s) ELSE s) EXCEPT !.isAiming = FALSE]

\* the loop's map on one target at the time now
DE_updateTarget(target, now) ==
    IF target.isHit
    THEN [target EXCEPT
             !.opacity = Max(0, 1000 - Scale((now - target.hitTime) * 1000, 1, 30))]
    ELSE LET newX == target.x + target.vx
             newY == target.y + target.vy
             bounceX == newX < SCOPE_MARGIN \/ newX > GAME_WIDTH - SCOPE_MARGIN
             bounceY == newY < SCOPE_TOP \/ newY > SCOPE_BOTTOM
         IN  [target EXCEPT
                 !.vx = IF bounceX THEN -@ ELSE @,
                 !.vy = IF bounceY THEN -@ ELSE @,
                 !.x = IF bounceX
                       THEN Max(SCOPE_MARGIN, Min(GAME_WIDTH - SCOPE_MARGIN, newX))
                       ELSE newX,
                 !.y = IF bounceY
                       THEN Max(SCOPE_TOP, Min(SCOPE_BOTTOM, newY))
                       ELSE newY]

DE_unhit(targets) == Cardinality({i \in 1 .. Len(targets) : ~targets[i].isHit})

\* a spawn that does not count the targets on screen
DE_spawnsAlways(now, lastSpawn, targets) == now - lastSpawn > 120

\* whether the loop spawns a target
DE_spawns(now, lastSpawn, targets) ==
    now - lastSpawn > 120 /\ DE_unhit(targets) < 5

\* one frame of the loop: the targets move or fade, the faded ones go, one may
\* be spawned with the draws d, and a save starts while the score is above
\* bestScoreRef
DE_loop(s, d) ==
    LET now == s.time + 1
        moved == [i \in 1 .. Len(s.targets) |-> DE_updateTarget(s.targets[i], now)]
        kept == SelectSeq(moved, LAMBDA t : t.opacity > 50)
        spawns == DE_spawns(now, s.lastSpawn, kept)
    IN  [s EXCEPT
            !.time = now,
            !.targets = IF spawns THEN Append(kept, DE_spawnTarget(d)) ELSE kept,
            !.lastSpawn = IF spawns THEN now ELSE @,
            !.saves = IF s.score > s.bestScoreRef THEN Append(@, s.score) ELSE @,
            !.shot = NoShot]

\* the continuation of saveBestScore(newBest) after its setItem
DE_saveDone(s, i) ==
    [s EXCEPT !.stored = s.saves[i],
              !.bestScoreRef = s.saves[i],
              !.saves = SubSeq(@, 1, i - 1) \o SubSeq(@, i + 1, Len(@)),
              !.shot = NoShot]

\* ------------------------------------------------------------------ Toilet Chaos

\* GRAVITY, FLAP_POWER and SCROLL_SPEED of toiletchaos.tsx, in hundredths of
\* a pixel per frame
TC_GRAVITY == 35

TC_FLAP_POWER == -700

SCROLL_SPEED == 250

OBSTACLE_GAP == Px(180)

OBSTACLE_SPACING == Px(250)

CHAR_SIZE == Px(50)

CHAR_X == Scale(GAME_WIDTH, 25, 100)

\* fallSpeed and flapPower, in hundredths
CHARACTERS ==
    [ poop      |-> [fallSpeed |-> 100, flapPower |-> 100],
      photoPoop |-> [fallSpeed |-> 100, flapPower |-> 100],
      doll      |-> [fallSpeed |-> 110, flapPower |-> 105],
      balloon   |-> [fallSpeed |-> 70,  flapPower |-> 85] ]

\* Math.sin of an angle in hundredths of a radian, in thousandths: the
\* rational approximation 16 x (pi - x) / (5 pi^2 - 4 x (pi - x)) on a half
\* period, within 0.005 of the sine
TC_sin(a) ==
    LET turn == a % 628
        x    == IF turn >= 314 THEN turn - 314 ELSE turn
        half == (16 * x * (314 - x) * 1000) \div (5 * 314 * 314 - 4 * x * (314 - x))
    IN  IF turn >= 314 THEN -half ELSE half

\* one obstacle of initObstacles; d.gap is Math.random() in hundredths and
\* d.phase the streamPhase in hundredths of a radian
TC_newObstacle(i, d) ==
    [ x            |-> GAME_WIDTH + i * OBSTACLE_SPACING,
      gapY         |-> Scale(GAME_HEIGHT, 30, 100)
                           + Scale(Scale(GAME_HEIGHT, 40, 100), d.gap, 100),
      streamOffset |-> 0,
      streamPhase  |-> d.phase,
      passed       |-> FALSE ]

initObstacles(draws) == [i \in 1 .. 4 |-> TC_newObstacle(i - 1, draws[i])]

\* what a tick reports: whether checkCollision returned true, for which
\* obstacle (0 for the screen bounds), and whether that obstacle had been
\* counted as passed
TC_NoTick == [ran |-> FALSE, splat |-> FALSE, by |-> 0, byPassed |-> FALSE]

TC_initial ==
    [ gameState |-> "select",
      character |-> "poop",
      playerY   |-> GAME_HEIGHT \div 2,
      playerVY  |-> 0,
      score     |-> 0,
      gameTime  |-> 0,
      obstacles |-> << >>,
      tick      |-> TC_NoTick ]

TC_startGame(t, draws) ==
    [t EXCEPT !.playerY = GAME_HEIGHT \div 2,
              !.playerVY = 0,
              !.score = 0,
              !.gameTime = 0,
              !.obstacles = initObstacles(draws),
              !.gameState = "playing",
              !.tick = TC_NoTick]

handleFlap(t, draws) ==
    CASE t.gameState = "select"  -> [t EXCEPT !.tick = TC_NoTick]
      [] t.gameState = "splat"   -> TC_startGame(t, draws)
      [] t.gameState = "playing" ->
            [t EXCEPT !.playerVY = Scale(TC_FLAP_POWER,
                                         CHARACTERS[t.character].flapPower, 100),
                      !.tick = TC_NoTick]

\* the body of the loop of checkCollision for one obstacle
TC_hitsObstacle(py, obstacle) ==
    LET charRadius      == CHAR_SIZE \div 2
        toiletWidth     == Px(50)
        streamWidth     == Px(30)
        topStreamBottom == obstacle.gapY - OBSTACLE_GAP \div 2 + obstacle.streamOffset
        bottomStreamTop == obstacle.gapY + OBSTACLE_GAP \div 2 + obstacle.streamOffset
        toiletTop       == Px(40)
        toiletBottom    == GAME_HEIGHT - Px(40)
        overToilet      == /\ CHAR_X + charRadius > obstacle.x - toiletWidth \div 2
                           /\ CHAR_X - charRadius < obstacle.x + toiletWidth \div 2
        overStream      == /\ CHAR_X + charRadius > obstacle.x - streamWidth \div 2
                           /\ CHAR_X - charRadius < obstacle.x + streamWidth \div 2
    IN  /\ ~(obstacle.x < CHAR_X - Px(60) \/ obstacle.x > CHAR_X + Px(60))
        /\ \/ overToilet /\ py - charRadius < toiletTop + Px(50)
           \/ overToilet /\ py + charRadius > toiletBottom - Px(50)
           \/ overStream /\ py - charRadius < topStreamBottom
           \/ overStream /\ py + charRadius > bottomStreamTop

TC_outOfScreen(py) ==
    py - CHAR_SIZE \div 2 < 0 \/ py + CHAR_SIZE \div 2 > GAME_HEIGHT

\* the obstacles checkCollision returns true for
TC_colliders(py, obs) == {i \in DOMAIN obs : TC_hitsObstacle(py, obs[i])}

checkCollision(py, obs) == TC_outOfScreen(py) \/ TC_colliders(py, obs) # {}

\* the first map of the loop, for one obstacle
TC_updateObstacle(obs, gameTime) ==
    LET newX == obs.x - SCROLL_SPEED
    IN  [obs EXCEPT !.x = newX,
                    !.streamOffset =
                        Scale(TC_sin(gameTime * 3 + obs.streamPhase), Px(25), 1000),
                    !.passed = obs.passed \/ newX + Px(30) < CHAR_X]

TC_maxX(obs) == CHOOSE m \in {obs[i].x : i \in DOMAIN obs} :
                    \A i \in DOMAIN obs : obs[i].x <= m

\* the second map of the loop, for one obstacle
TC_recycle(obs, updated, d) ==
    IF obs.x < -Px(80)
    THEN [ x            |-> TC_maxX(updated) + OBSTACLE_SPACING,
           gapY         |-> Scale(GAME_HEIGHT, 25, 100)
                                + Scale(Scale(GAME_HEIGHT, 50, 100), d.gap, 100),
           streamOffset |-> 0,
           streamPhase  |-> d.phase,
           passed       |-> FALSE ]
    ELSE obs

\* the state after the loop, given the obstacles it computed
TC_afterLoop(t, py, vy, updated, recycled) ==
    LET splat == checkCollision(py, recycled)
        hits  == TC_colliders(py, recycled)
        by    == IF TC_outOfScreen(py) \/ hits = {} THEN 0
                 ELSE CHOOSE i \in hits : \A j \in hits : i <= j
    IN  [t EXCEPT !.gameTime = t.gameTime + 1,
                  !.playerVY = vy,
                  !.playerY = py,
                  !.score = @ + Cardinality({i \in DOMAIN updated :
                                   updated[i].passed /\ ~t.obstacles[i].passed}),
                  !.obstacles = recycled,
                  !.gameState = IF splat THEN "splat" ELSE @,
                  !.tick = [ran |-> TRUE, splat |-> splat, by |-> by,
                            byPassed |-> by > 0 /\ recycled[by].passed]]

\* one run of loop(); d is the draw of an obstacle it recycles
TC_loop(t, d) ==
    LET vy == t.playerVY + Scale(TC_GRAVITY, CHARACTERS[t.character].fallSpeed, 100)
    IN  CHOOSE after \in
            { TC_afterLoop(t, t.playerY + vy, vy, updated,
                           [i \in DOMAIN updated |-> TC_recycle(updated[i], updated, d)]) :
              updated \in {[i \in DOMAIN t.obstacles |->
                               TC_updateObstacle(t.obstacles[i], t.gameTime + 1)]} } : TRUE

\* Flush It, Toilet Chaos and Deadeye not opened
NoBowl == [gameState |-> "none"]

NoToilet == [gameState |-> "none"]

NoDeadeye == [gameState |-> "none"]

ArcadeAtRest == bowl = NoBowl /\ toilet = NoToilet /\ deadeye = NoDeadeye

\* The frames of a game loop.  current holds the closure of the pending
\* animation frame whose id is in gameLoopRef, orphans the closures of the
\* pending frames whose id is no longer there; a closure is the gameState its
\* updatePhysics was rendered with.  effectState is the gameState the
\* game-loop effect last ran with, cleanup whether that run returned a
\* cleanup, dirty whether a dependency of the effect other than gameState
\* changed since, rerun whether the step just taken ran the effect again
\* while its frame was pending, and fired the report of the frame just run:
\* whether the attempt that scheduled it was still active.
NoLoop ==
    [game |-> "none", gameState |-> "none", current |-> << >>, orphans |-> << >>,
     effectState |-> "none", cleanup |-> FALSE, dirty |-> FALSE, rerun |-> FALSE,
     fired |-> [ran |-> FALSE, stale |-> FALSE], staleFrames |-> 0]

\* A StabilityTracker at time 0 with its body outside the zone: settledSince
\* is << >> for null and << t >> for the timestamp t; lastUnsettled is the time
\* of the last tick that found the body not settled and dwellLost the dwell
\* that tick threw away.
NoTracker ==
    [now |-> 0, settledSince |-> << >>, withinZoneBounds |-> FALSE,
     vx |-> 0, vy |-> 0, winFired |-> FALSE, wins |-> 0,
     lastUnsettled |-> 0, dwellLost |-> 0]

DI_initial ==
    [currentLevel |-> 0, gameState |-> "waiting", activePatty |-> NullPatty,
     disposedCount |-> 0, pan |-> NewPan, aimStart |-> NullPoint,
     aimEnd |-> NullPoint, selectedItem |-> "patty", selectedTarget |-> "trashbin",
     isDragging |-> FALSE, lastTouchX |-> 0, pendingNextLevel |-> 0,
     pendingRestart |-> 0]

CH_initial ==
    [currentLevel |-> 0, gameState |-> "setup", headshots |-> 0,
     selectedItemId |-> "poop", projectile |-> NullProjectile,
     headOffset |-> [x |-> 0, y |-> 0], aimStart |-> NullPoint,
     aimEnd |-> NullPoint, hasStartedPlayingRef |-> FALSE,
     pendingNextLevel |-> << >>, pendingRestart |-> 0, pendingReady |-> 0,
     pendingHeadReset |-> 0]

Init ==
    /\ currentScreen = "menu"
    /\ dumpIt = DI_initial
    /\ crazyHead = CH_initial
    /\ touching = FALSE
    /\ lastTick = NoTick
    /\ lastPreview = NoArrow
    /\ flight = NoFlight
    /\ budget = [spawns |-> 0, panMoves |-> 0, held |-> 0]
    /\ tracker = NoTracker
    /\ lastTouch = NoTouch
    /\ loop = NoLoop
    /\ flushIt = FI_initial
    /\ ArcadeAtRest
    /\ headCheck = NoHeadCheck

\* MainMenu: a game card is pressed
OpenGame ==
    /\ currentScreen = "menu"
    /\ \E screen \in {"dumpit", "crazyhead"} : currentScreen' = screen
    /\ UNCHANGED << dumpIt, crazyHead, touching, lastTick, lastPreview, flight,
                    budget, tracker, lastTouch, loop, flushIt,
                    headCheck, bowl, toilet, deadeye >>

\* ------------------------------------------------------------------ Dump It: actions

\* The render after a handler: the arrow drawn for the new state, kept as the
\* last preview of the body in play when the new state draws none.
DI_render(s) ==
    lastPreview' =
        IF ~s.activePatty.exists \/ s.gameState \in {"waiting", "win", "fail"}
        THEN NoArrow
        ELSE IF DI_getAimArrow(s).set THEN DI_getAimArrow(s)
        ELSE lastPreview

\* the flight record after a handler that may have launched the patty
DI_flightAfter(s) ==
    IF dumpIt.gameState = "aiming" /\ s.gameState = "playing"
    THEN [launched |-> TRUE, game |-> "dumpit", ticks |-> 0, clean |-> TRUE,
          vx0 |-> s.activePatty.vx, vy0 |-> s.activePatty.vy,
          x0 |-> s.activePatty.x, y0 |-> s.activePatty.y,
          drag |-> Drag(dumpIt), aimed |-> FALSE, sides |-> 0]
    ELSE IF s.gameState \in {"playing", "aiming"} /\ s.activePatty.exists
         THEN flight
         ELSE NoFlight

\* the component state s is committed and rendered
DI_show(s) ==
    /\ dumpIt' = s
    /\ DI_render(s)
    /\ flight' = DI_flightAfter(s)
    /\ lastTick' = NoTick
    /\ UNCHANGED << currentScreen, crazyHead, tracker, loop, flushIt,
                    headCheck, bowl, toilet, deadeye >>

\* after a timer or a button
DI_commit(s) == DI_show(s) /\ lastTouch' = NoTouch

\* after the touch handler of the given kind
DI_touched(kind, s) == DI_show(s) /\ lastTouch' = Touch("dumpit", kind, dumpIt)

\* the spawn timer of the waiting state
DI_SpawnTimer ==
    /\ currentScreen = "dumpit"
    /\ dumpIt.gameState = "waiting"
    /\ budget.spawns < MaxSpawns
    /\ \E vx \in SpawnVx : DI_commit(DI_spawnPatty(dumpIt, vx))
    /\ budget' = [budget EXCEPT !.spawns = @ + 1]
    /\ UNCHANGED touching

\* The finger goes down.  The player drags the pan while a fresh patty drops
\* onto it, not while a thrown one is in the air, and no later than MaxPanMoves
\* pan moves allow.
DI_TouchStart ==
    /\ currentScreen = "dumpit"
    /\ ~touching
    /\ dumpIt.gameState = "waiting" => budget.spawns < MaxSpawns
    /\ dumpIt.gameState # "aiming" => budget.panMoves < MaxPanMoves /\ ~flight.launched
    /\ touching' = TRUE
    /\ \E pt \in DI_TouchDown, vx \in SpawnVx :
          /\ DI_touched("start", DI_onTouchStart(dumpIt, pt[1], pt[2], vx))
          /\ budget' = IF dumpIt.gameState = "waiting"
                       THEN [budget EXCEPT !.spawns = @ + 1]
                       ELSE budget

DI_TouchMove ==
    /\ currentScreen = "dumpit"
    /\ touching
    /\ \E pt \in DI_TouchMoves :
          LET s == DI_onTouchMove(dumpIt, pt[1], pt[2])
          IN  /\ s.pan # dumpIt.pan => budget.panMoves < MaxPanMoves
              /\ DI_touched("move", s)
              /\ budget' = IF s.pan # dumpIt.pan
                           THEN [budget EXCEPT !.panMoves = @ + 1]
                           ELSE budget
    /\ UNCHANGED touching

DI_TouchEnd ==
    /\ currentScreen = "dumpit"
    /\ touching
    /\ touching' = FALSE
    /\ DI_touched("end", DI_onTouchEnd(dumpIt))
    /\ budget' = [budget EXCEPT !.held = 0]

\* one animation frame of the game loop, which runs while playing or aiming
DI_Tick ==
    /\ currentScreen = "dumpit"
    /\ dumpIt.gameState \in {"playing", "aiming"}
    /\ touching => budget.held < MaxHoldTicks
    /\ budget' = IF touching THEN [budget EXCEPT !.held = @ + 1] ELSE budget
    /\ \E t \in {DI_updatePhysics(dumpIt)} :
           /\ dumpIt' = t.s
           /\ lastTick' = t.r
           /\ DI_render(t.s)
           /\ flight' =
                 IF ~t.r.ran \/ ~flight.launched THEN flight
                 ELSE [flight EXCEPT !.ticks = @ + 1,
                                     !.clean = @ /\ t.r.responses = << >>,
                                     !.sides = IF t.r.bin = "side"
                                               THEN Min(@ + 1, MaxSides) ELSE 0]
    /\ lastTouch' = NoTouch
    /\ UNCHANGED << currentScreen, crazyHead, touching, tracker, loop, flushIt,
                    headCheck, bowl, toilet, deadeye >>

\* the 2000 ms timer of handleWin
DI_NextLevelTimer ==
    /\ currentScreen = "dumpit"
    /\ dumpIt.pendingNextLevel > 0
    /\ DI_commit(DI_levelEffect(dumpIt,
          DI_nextLevel([dumpIt EXCEPT !.pendingNextLevel = @ - 1],
                       DI_firstRenderLevel)))
    /\ UNCHANGED << touching, budget >>

\* the 1500 ms timer of handleFail
DI_RestartTimer ==
    /\ currentScreen = "dumpit"
    /\ dumpIt.pendingRestart > 0
    /\ DI_commit(DI_restartLevel([dumpIt EXCEPT !.pendingRestart = @ - 1]))
    /\ UNCHANGED << touching, budget >>

\* the reload button
DI_RestartButton ==
    /\ currentScreen = "dumpit"
    /\ DI_commit(DI_restartLevel(dumpIt))
    /\ UNCHANGED << touching, budget >>

DI_Next ==
    \/ DI_SpawnTimer
    \/ DI_TouchStart
    \/ DI_TouchMove
    \/ DI_TouchEnd
    \/ DI_Tick
    \/ DI_NextLevelTimer
    \/ DI_RestartTimer
    \/ DI_RestartButton

\* ------------------------------------------------------------------ Crazy Head: actions

\* how many ticks of a free flight are searched for the head centre
MaxAimTicks == 40

\* The free flight of a projectile from p meets the head centre exactly on
\* one of its next n ticks: its closest approach to the centre is 0.
RECURSIVE CH_meetsCentre(_, _)
CH_meetsCentre(p, n) ==
    LET q == CH_integrate(p)
    IN  IF n = 0 \/ CH_fellOff(q) THEN FALSE
        ELSE IF q.x = CHARACTER_X /\ q.y = CHARACTER_Y - Px(60) THEN TRUE
        ELSE CH_meetsCentre(q, n - 1)

CH_render(s) ==
    lastPreview' =
        IF ~s.projectile.exists \/ s.gameState \notin {"aiming", "flying"}
        THEN NoArrow
        ELSE IF CH_getAimArrow(s).set THEN CH_getAimArrow(s)
        ELSE lastPreview

\* the flight record after a handler that may have launched the projectile
CH_flightAfter(s) ==
    IF crazyHead.gameState = "aiming" /\ s.gameState = "flying"
    THEN [launched |-> TRUE, game |-> "crazyhead", ticks |-> 0, clean |-> TRUE,
          vx0 |-> s.projectile.vx, vy0 |-> s.projectile.vy,
          x0 |-> s.projectile.x, y0 |-> s.projectile.y,
          drag |-> Drag(crazyHead),
          aimed |-> CH_meetsCentre(s.projectile, MaxAimTicks), sides |-> 0]
    ELSE IF s.gameState = "flying" /\ s.projectile.exists
         THEN flight
         ELSE NoFlight

CH_show(s) ==
    /\ crazyHead' = s
    /\ CH_render(s)
    /\ flight' = CH_flightAfter(s)
    /\ lastTick' = NoTick
    /\ UNCHANGED << currentScreen, dumpIt, tracker, loop, flushIt,
                    headCheck, bowl, toilet, deadeye >>

CH_commit(s) == CH_show(s) /\ lastTouch' = NoTouch

CH_touched(kind, s) == CH_show(s) /\ lastTouch' = Touch("crazyhead", kind, crazyHead)

\* "Play with Default Face" on the setup overlay
CH_SkipSetup ==
    /\ currentScreen = "crazyhead"
    /\ crazyHead.gameState = "setup"
    /\ CH_commit([crazyHead EXCEPT !.hasStartedPlayingRef = TRUE,
                                    !.gameState = "ready"])
    /\ UNCHANGED << touching, budget >>

\* A head image is picked and its focus point confirmed: confirmFocusPoint
\* sets the hasStartedPlaying state and leaves hasStartedPlayingRef alone.
CH_ConfirmFocusPoint ==
    /\ currentScreen = "crazyhead"
    /\ crazyHead.gameState = "setup"
    /\ CH_commit([crazyHead EXCEPT !.gameState = "ready"])
    /\ UNCHANGED << touching, budget >>

\* the item selector bar, shown while ready or aiming
CH_SelectItem ==
    /\ currentScreen = "crazyhead"
    /\ crazyHead.gameState \in {"ready", "aiming"}
    /\ \E id \in CH_Picks : CH_commit([crazyHead EXCEPT !.selectedItemId = id])
    /\ UNCHANGED << touching, budget >>

\* The finger goes down where the handler acts on it: a touch in any other
\* state returns from all three handlers without a change.
CH_TouchStart ==
    /\ currentScreen = "crazyhead"
    /\ ~touching
    /\ crazyHead.gameState \in {"ready", "aiming"}
    /\ crazyHead.gameState = "ready" => budget.spawns < MaxSpawns
    /\ touching' = TRUE
    /\ \E pt \in CH_TouchDown :
          CH_touched("start", CH_onTouchStart(crazyHead, pt[1], pt[2]))
    /\ budget' = IF crazyHead.gameState = "ready"
                 THEN [budget EXCEPT !.spawns = @ + 1]
                 ELSE budget

CH_TouchMove ==
    /\ currentScreen = "crazyhead"
    /\ touching
    /\ \E pt \in CH_TouchMoves :
          CH_touched("move", CH_onTouchMove(crazyHead, pt[1], pt[2]))
    /\ UNCHANGED << touching, budget >>

CH_TouchEnd ==
    /\ currentScreen = "crazyhead"
    /\ touching
    /\ touching' = FALSE
    /\ CH_touched("end", CH_onTouchEnd(crazyHead))
    /\ UNCHANGED budget

\* one animation frame of the game loop, which runs while flying
CH_Tick ==
    /\ currentScreen = "crazyhead"
    /\ crazyHead.gameState = "flying"
    /\ \E t \in {CH_updatePhysics(crazyHead)} :
           /\ crazyHead' = t.s
           /\ lastTick' = t.r
           /\ CH_render(t.s)
           /\ flight' =
                 IF ~t.r.ran \/ ~flight.launched THEN flight
                 ELSE [flight EXCEPT !.ticks = @ + 1,
                                     !.clean = @ /\ t.r.responses = << >>]
    /\ lastTouch' = NoTouch
    /\ UNCHANGED << currentScreen, dumpIt, touching, budget, tracker, loop, flushIt,
                    headCheck, bowl, toilet, deadeye >>

\* the 500 ms timer of handleHeadshot
CH_ReadyTimer ==
    /\ currentScreen = "crazyhead"
    /\ crazyHead.pendingReady > 0
    /\ CH_commit([crazyHead EXCEPT !.pendingReady = @ - 1,
                                    !.projectile = NullProjectile,
                                    !.gameState = "ready"])
    /\ UNCHANGED << touching, budget >>

\* the 2000 ms timer of handleHeadshot
CH_NextLevelTimer ==
    /\ currentScreen = "crazyhead"
    /\ crazyHead.pendingNextLevel # << >>
    /\ CH_commit(CH_nextLevel([crazyHead EXCEPT !.pendingNextLevel = Tail(@)],
                              Head(crazyHead.pendingNextLevel)))
    /\ UNCHANGED << touching, budget >>

\* the 1500 ms timer of handleMiss
CH_RestartTimer ==
    /\ currentScreen = "crazyhead"
    /\ crazyHead.pendingRestart > 0
    /\ CH_commit(CH_restartLevel([crazyHead EXCEPT !.pendingRestart = @ - 1]))
    /\ UNCHANGED << touching, budget >>

\* the 200 ms and 150 ms timers of applyHitEffect
CH_HeadResetTimer ==
    /\ currentScreen = "crazyhead"
    /\ crazyHead.pendingHeadReset > 0
    /\ CH_commit([crazyHead EXCEPT !.pendingHeadReset = @ - 1,
                                    !.headOffset = [x |-> 0, y |-> 0]])
    /\ UNCHANGED << touching, budget >>

\* the reload button
CH_RestartButton ==
    /\ currentScreen = "crazyhead"
    /\ CH_commit(CH_restartLevel(crazyHead))
    /\ UNCHANGED << touching, budget >>

CH_Next ==
    \/ CH_SkipSetup
    \/ CH_ConfirmFocusPoint
    \/ CH_SelectItem
    \/ CH_TouchStart
    \/ CH_TouchMove
    \/ CH_TouchEnd
    \/ CH_Tick
    \/ CH_ReadyTimer
    \/ CH_NextLevelTimer
    \/ CH_RestartTimer
    \/ CH_HeadResetTimer
    \/ CH_RestartButton

\* ------------------------------------------------------------------ the program

Next == OpenGame \/ DI_Next \/ CH_Next

Spec == Init /\ [][Next]_vars

\* ------------------------------------------------------------------ StabilityTracker

\* the velocity threshold and the dwell time of a zone, in ms
Vt == 2

REQUIRED_DWELL_MS == 4

\* the clock stops here
MaxNow == 10

\* the time between two ticks, in ms
TickMs == {1, 2}

\* the velocities a body in the zone is given
DwellVelocities == {-5, 0, 1, 2, 5}

isSettled(t) ==
    t.withinZoneBounds /\ Abs(t.vx) < Vt /\ Abs(t.vy) < Vt

\* the tick of a tracker that keeps its timer through a disturbance
StabilityTracker_tickKeepsTimer(t, now) ==
    LET since == IF isSettled(t) /\ t.settledSince = << >>
                 THEN << now >> ELSE t.settledSince
        win == isSettled(t) /\ now - since[1] >= REQUIRED_DWELL_MS /\ ~t.winFired
    IN  [t EXCEPT !.now = now,
                  !.settledSince = since,
                  !.winFired = @ \/ win,
                  !.wins = IF win THEN @ + 1 ELSE @,
                  !.lastUnsettled = IF isSettled(t) THEN @ ELSE now]

\* one tick of the tracker at time now
StabilityTracker_tick(t, now) ==
    LET settled == isSettled(t)
        since == IF ~settled THEN << >>
                 ELSE IF t.settledSince = << >> THEN << now >>
                 ELSE t.settledSince
        win == settled /\ now - since[1] >= REQUIRED_DWELL_MS /\ ~t.winFired
    IN  [t EXCEPT !.now = now,
                  !.settledSince = since,
                  !.winFired = @ \/ win,
                  !.wins = IF win THEN @ + 1 ELSE @,
                  !.lastUnsettled = IF settled THEN @ ELSE now,
                  !.dwellLost = IF ~settled /\ t.settledSince # << >>
                                THEN t.now - t.settledSince[1] ELSE @]

\* the body is put in or out of the zone, or pushed
Dwell_Disturb ==
    /\ \E z \in BOOLEAN, vx \in DwellVelocities, vy \in DwellVelocities :
          tracker' = [tracker EXCEPT !.withinZoneBounds = z, !.vx = vx, !.vy = vy]
    /\ tracker' # tracker
    /\ UNCHANGED << currentScreen, dumpIt, crazyHead, touching, lastTick,
                    lastPreview, flight, budget, lastTouch, loop, flushIt,
                    headCheck, bowl, toilet, deadeye >>

Dwell_Tick ==
    /\ \E dt \in TickMs :
          /\ tracker.now + dt <= MaxNow
          /\ tracker' = StabilityTracker_tick(tracker, tracker.now + dt)
    /\ UNCHANGED << currentScreen, dumpIt, crazyHead, touching, lastTick,
                    lastPreview, flight, budget, lastTouch, loop, flushIt,
                    headCheck, bowl, toilet, deadeye >>

NextDwell == Dwell_Disturb \/ Dwell_Tick

SpecDwell == Init /\ [][NextDwell]_vars

\* ------------------------------------------------------------------ the bin test on its own

\* The bin of level 0 and the patties one tick carries into it: on and about
\* both edges of its opening, above, in and below the depth that counts,
\* falling and rising.
BinEdgeOffsets == {-600, -500, -1, 0, 1, 500, 600}

BinDepths == {41000, 42000, 42945, 43000, 44000, 48000, 52945, 53000, 53945}

BinFalls == {-200, -55, 0}

InitBin ==
    /\ currentScreen = "dumpit"
    /\ \E edge \in {"left", "right"}, dx \in BinEdgeOffsets, y \in BinDepths,
          vy \in BinFalls :
          LET bin == getTargetPosition(0, "trashbin")
              openingLeft == bin.x + (bin.width - bin.openingWidth) \div 2
              x == IF edge = "left" THEN openingLeft + dx
                   ELSE openingLeft + bin.openingWidth + dx
          IN  dumpIt = [DI_initial EXCEPT
                            !.gameState = "playing",
                            !.activePatty =
                                [exists |-> TRUE, x |-> x, y |-> y, vx |-> 0, vy |-> vy,
                                 radius |-> ITEM_CONFIGS["patty"].radius,
                                 height |-> ITEM_CONFIGS["patty"].height,
                                 isOnPan |-> FALSE, isDisposed |-> FALSE]]
    /\ crazyHead = CH_initial
    /\ touching = FALSE
    /\ lastTick = NoTick
    /\ lastPreview = NoArrow
    /\ flight = NoFlight
    /\ budget = [spawns |-> 1, panMoves |-> 0, held |-> 0]
    /\ tracker = NoTracker
    /\ lastTouch = NoTouch
    /\ loop = NoLoop
    /\ flushIt = FI_initial
    /\ ArcadeAtRest
    /\ headCheck = NoHeadCheck

\* one tick on the drawn patty
BinTick == ~lastTick.ran /\ DI_Tick

SpecBin == InitBin /\ [][BinTick]_vars

\* ------------------------------------------------------------------ the drop onto the pan

\* A body of each item at (160, 60), at rest, above a stationary, untilted
\* pan at (120, 300); flight counts its ticks and its first response.
InitDrop ==
    /\ currentScreen = "dumpit"
    /\ \E item \in DOMAIN ITEM_CONFIGS :
          dumpIt = [DI_initial EXCEPT
                        !.gameState = "playing",
                        !.selectedItem = item,
                        !.pan = [NewPan EXCEPT !.x = Px(120), !.y = Px(300)],
                        !.activePatty =
                            [exists |-> TRUE, x |-> Px(160), y |-> Px(60),
                             vx |-> 0, vy |-> 0,
                             radius |-> ITEM_CONFIGS[item].radius,
                             height |-> ITEM_CONFIGS[item].height,
                             isOnPan |-> FALSE, isDisposed |-> FALSE]]
    /\ crazyHead = CH_initial
    /\ touching = FALSE
    /\ lastTick = NoTick
    /\ lastPreview = NoArrow
    /\ flight = [NoFlight EXCEPT !.launched = TRUE, !.game = "dumpit",
                                 !.x0 = Px(160), !.y0 = Px(60)]
    /\ budget = [spawns |-> 1, panMoves |-> 0, held |-> 0]
    /\ tracker = NoTracker
    /\ lastTouch = NoTouch
    /\ loop = NoLoop
    /\ flushIt = FI_initial
    /\ ArcadeAtRest
    /\ headCheck = NoHeadCheck

\* the game loop calls updatePhysics on every animation frame
SpecDrop == InitDrop /\ [][DI_Tick]_vars /\ WF_vars(DI_Tick)

\* ------------------------------------------------------------------ the bin wall

\* A body of each item in flight at the left wall of the bin of level 0, at
\* depths from the opening's top to the bin's bottom.
RimXs == {Px(155), Px(170), Px(195)}

RimYs == {Px(410), Px(470), Px(520), Px(535), Px(539)}

RimVxs == {-100, 100, 300}

RimVys == {0, 300, 900}

InitRim ==
    /\ currentScreen = "dumpit"
    /\ \E item \in DOMAIN ITEM_CONFIGS, x \in RimXs, y \in RimYs,
          vx \in RimVxs, vy \in RimVys :
          dumpIt = [DI_initial EXCEPT
                        !.gameState = "playing",
                        !.selectedItem = item,
                        !.activePatty =
                            [exists |-> TRUE, x |-> x, y |-> y, vx |-> vx, vy |-> vy,
                             radius |-> ITEM_CONFIGS[item].radius,
                             height |-> ITEM_CONFIGS[item].height,
                             isOnPan |-> FALSE, isDisposed |-> FALSE]]
    /\ crazyHead = CH_initial
    /\ touching = FALSE
    /\ lastTick = NoTick
    /\ lastPreview = NoArrow
    /\ flight = [NoFlight EXCEPT !.launched = TRUE, !.game = "dumpit"]
    /\ budget = [spawns |-> 1, panMoves |-> 0, held |-> 0]
    /\ tracker = NoTracker
    /\ lastTouch = NoTouch
    /\ loop = NoLoop
    /\ flushIt = FI_initial
    /\ ArcadeAtRest
    /\ headCheck = NoHeadCheck

SpecRim == InitRim /\ [][DI_Tick]_vars

\* ------------------------------------------------------------------ the end of a level

\* The levels a game started at level 0 can be at: nextLevel always counts
\* from the level of the first render.
ReachedLevels == {0, DI_firstRenderLevel + 1}

\* where the last patty of a level is: over the opening of the bin, dx from
\* its centre and dy from its top, or over the ground left of the bin
LastPattyDxs == {-Px(20), 0, Px(20)}

LastPattyDys == {-Px(5), Px(5), Px(12)}

LastPattyVys == {100, 400}

\* One disposal short of the level's requirement, the patty in flight.
LastPattyInFlight ==
    /\ currentScreen = "dumpit"
    /\ \E level \in ReachedLevels, item \in DOMAIN ITEM_CONFIGS,
          dx \in LastPattyDxs, dy \in LastPattyDys, vy \in LastPattyVys,
          overBin \in BOOLEAN :
          LET bin == getTargetPosition(level, "trashbin")
          IN  dumpIt = [DI_initial EXCEPT
                            !.currentLevel = level,
                            !.gameState = "playing",
                            !.selectedItem = item,
                            !.disposedCount = levelConfig(level).requiredPatties - 1,
                            !.activePatty =
                                [exists |-> TRUE,
                                 x |-> IF overBin THEN bin.x + bin.width \div 2 + dx
                                       ELSE Px(60) + dx,
                                 y |-> IF overBin THEN bin.openingY + dy
                                       ELSE GAME_HEIGHT - Px(40) + dy,
                                 vx |-> 0, vy |-> vy,
                                 radius |-> ITEM_CONFIGS[item].radius,
                                 height |-> ITEM_CONFIGS[item].height,
                                 isOnPan |-> FALSE, isDisposed |-> FALSE]]
    /\ crazyHead = CH_initial
    /\ touching = FALSE
    /\ lastTick = NoTick
    /\ lastPreview = NoArrow
    /\ flight = [NoFlight EXCEPT !.launched = TRUE, !.game = "dumpit"]
    /\ budget = [spawns |-> 1, panMoves |-> 0, held |-> 0]
    /\ tracker = NoTracker
    /\ lastTouch = NoTouch
    /\ flushIt = FI_initial
    /\ ArcadeAtRest
    /\ headCheck = NoHeadCheck

InitLevels == LastPattyInFlight /\ loop = NoLoop

NextLevels == DI_Tick \/ DI_NextLevelTimer \/ DI_RestartTimer

SpecLevels == InitLevels /\ [][NextLevels]_vars

\* ------------------------------------------------------------------ the game loop

\* requestAnimationFrame(loop) with its id stored in gameLoopRef: the frame
\* carries the closure it was created in, and a frame that was pending under
\* the id the ref held is pending still, out of the ref's reach
requestAnimationFrame(l, closure) ==
    [l EXCEPT !.current = << closure >>, !.orphans = @ \o l.current]

\* if (gameLoopRef.current) cancelAnimationFrame(gameLoopRef.current)
cancelAnimationFrame(l) == [l EXCEPT !.current = << >>]

\* an effect that returns no cleanup
Loop_noCleanup(l) == l

\* the cleanup the last run of the effect returned, if it returned one
Loop_cleanup(l) == IF l.cleanup THEN cancelAnimationFrame(l) ELSE l

\* The game-loop effect of Dump It, run for a render with the given gameState
\* after the cleanup of its last run.
DI_gameLoopEffect(l, gameState) ==
    LET cleaned == Loop_cleanup(l)
        started == IF gameState \in {"playing", "aiming"}
                   THEN requestAnimationFrame(cleaned, gameState)
                   ELSE cleaned
    IN  [started EXCEPT !.effectState = gameState, !.cleanup = TRUE,
                        !.staleFrames = 0, !.dirty = FALSE]

\* The game-loop effect of Flush It: outside 'playing' it cancels the frame
\* and returns no cleanup.
FI_gameLoopEffect(l, gameState) ==
    LET cleaned == Loop_cleanup(l)
    IN  IF gameState # "playing"
        THEN [cancelAnimationFrame(cleaned) EXCEPT
                  !.effectState = gameState, !.cleanup = FALSE,
                  !.staleFrames = 0, !.dirty = FALSE]
        ELSE [requestAnimationFrame(cleaned, gameState) EXCEPT
                  !.effectState = gameState, !.cleanup = TRUE,
                  !.staleFrames = 0, !.dirty = FALSE]

\* The game-loop effect of Toilet Chaos, of the same shape.
TC_gameLoopEffect(l, gameState) ==
    LET cleaned == Loop_cleanup(l)
    IN  IF gameState # "playing"
        THEN [cancelAnimationFrame(cleaned) EXCEPT
                  !.effectState = gameState, !.cleanup = FALSE,
                  !.staleFrames = 0, !.dirty = FALSE]
        ELSE [requestAnimationFrame(cleaned, gameState) EXCEPT
                  !.effectState = gameState, !.cleanup = TRUE,
                  !.staleFrames = 0, !.dirty = FALSE]

\* frames that may fire between a state change and the effect that follows it
MaxStaleFrames == 1

\* the attempt of Dump It is over: won, failed, or its patty disposed of
DI_attemptOver == dumpIt.gameState \in {"win", "fail", "waiting"}

\* The pending frame fires: loop() calls the updatePhysics of its closure,
\* which reads gameState as it was rendered and the refs as they are now, and
\* asks for the next frame.  handleWin and handleFail cancel the id in
\* gameLoopRef, which is the id of the frame that is running.
DI_LoopFrame ==
    /\ currentScreen = "dumpit"
    /\ loop.game = "dumpit"
    /\ loop.current # << >>
    /\ loop.effectState # dumpIt.gameState => loop.staleFrames < MaxStaleFrames
    /\ \E closure \in {loop.current[1]} :
       \E t \in {DI_updatePhysics([dumpIt EXCEPT !.gameState = closure])} :
           /\ dumpIt' = [t.s EXCEPT !.gameState = IF t.s.gameState # closure
                                                  THEN t.s.gameState
                                                  ELSE dumpIt.gameState]
           /\ lastTick' = t.r
           /\ DI_render(t.s)
           /\ flight' =
                 IF ~t.r.ran \/ ~flight.launched THEN flight
                 ELSE [flight EXCEPT !.ticks = @ + 1,
                                     !.clean = @ /\ t.r.responses = << >>,
                                     !.sides = IF t.r.bin = "side"
                                               THEN Min(@ + 1, MaxSides) ELSE 0]
           /\ loop' = [requestAnimationFrame(cancelAnimationFrame(loop), closure)
                         EXCEPT !.fired = [ran |-> t.r.ran, stale |-> DI_attemptOver],
                                !.staleFrames =
                                    IF loop.effectState # dumpIt.gameState
                                    THEN @ + 1 ELSE @]
    /\ lastTouch' = NoTouch
    /\ UNCHANGED << currentScreen, crazyHead, touching, budget, tracker, flushIt,
                    headCheck, bowl, toilet, deadeye >>

\* React commits the render of the new gameState and runs the effect
DI_LoopEffects ==
    /\ currentScreen = "dumpit"
    /\ loop.game = "dumpit"
    /\ loop.effectState # dumpIt.gameState
    /\ loop' = DI_gameLoopEffect(loop, dumpIt.gameState)
    /\ lastTick' = NoTick
    /\ lastTouch' = NoTouch
    /\ UNCHANGED << currentScreen, dumpIt, crazyHead, touching, lastPreview,
                    flight, budget, tracker, flushIt, headCheck, bowl, toilet, deadeye >>

\* the timers are hundreds of milliseconds long: the effect has run by then
Loop_flushed == loop.effectState = dumpIt.gameState

DI_LoopSpawnTimer == Loop_flushed /\ DI_SpawnTimer

DI_LoopNextLevelTimer == Loop_flushed /\ DI_NextLevelTimer

DI_LoopRestartTimer == Loop_flushed /\ DI_RestartTimer

\* The last patty of a level in flight, the loop's frame pending.
InitLoop ==
    /\ LastPattyInFlight
    /\ loop = [NoLoop EXCEPT !.game = "dumpit", !.current = << "playing" >>,
                             !.effectState = "playing", !.cleanup = TRUE]

NextLoop ==
    \/ DI_LoopFrame
    \/ DI_LoopEffects
    \/ DI_LoopSpawnTimer
    \/ DI_LoopNextLevelTimer
    \/ DI_LoopRestartTimer

SpecLoop == InitLoop /\ [][NextLoop]_vars

\* ------------------------------------------------------------------ the frames of every game

LoopGames == {"dumpit", "flushit", "toiletchaos"}

\* the values of gameState
Loop_states(game) ==
    CASE game = "dumpit" -> {"waiting", "playing", "aiming", "win", "fail"}
      [] game = "flushit" -> {"select", "playing", "complete"}
      [] OTHER -> {"select", "playing", "splat"}

\* what a tick may set gameState to, by the gameState of its closure; "none"
\* is a tick that leaves it alone
Loop_outcomes(game, closure) ==
    CASE game = "dumpit" /\ closure \in {"playing", "aiming"} ->
             {"none", "aiming", "win", "fail", "waiting"}
      [] game = "flushit" /\ closure = "playing" -> {"none", "complete"}
      [] game = "toiletchaos" -> {"none", "splat"}
      [] OTHER -> {"none"}

\* loop() asks for the next frame after its tick; the loop of Toilet Chaos
\* returns without asking once the character has hit an obstacle
Loop_reschedules(game, outcome) == ~(game = "toiletchaos" /\ outcome = "splat")

Loop_effect(l, gameState) ==
    CASE l.game = "dumpit" -> DI_gameLoopEffect(l, gameState)
      [] l.game = "flushit" -> FI_gameLoopEffect(l, gameState)
      [] OTHER -> TC_gameLoopEffect(l, gameState)

Loop_pending(l) == Len(l.current) + Len(l.orphans)

Loop_unflushed == loop.dirty \/ loop.effectState # loop.gameState

\* A pending frame fires, the one in gameLoopRef or an older one.
Frames_Fire ==
    /\ Loop_pending(loop) > 0
    /\ Loop_unflushed => loop.staleFrames < MaxStaleFrames
    /\ \E i \in 0 .. Len(loop.orphans) :
          /\ i = 0 => loop.current # << >>
          /\ LET closure == IF i = 0 THEN loop.current[1] ELSE loop.orphans[i]
                 fired == IF i = 0 THEN cancelAnimationFrame(loop)
                          ELSE [loop EXCEPT !.orphans =
                                   SubSeq(@, 1, i - 1) \o SubSeq(@, i + 1, Len(@))]
             IN  \E outcome \in Loop_outcomes(loop.game, closure) :
                    loop' = [(IF Loop_reschedules(loop.game, outcome)
                              THEN requestAnimationFrame(fired, closure)
                              ELSE fired)
                             EXCEPT !.gameState = IF outcome = "none" THEN @ ELSE outcome,
                                    !.rerun = FALSE,
                                    !.staleFrames = IF Loop_unflushed THEN @ + 1 ELSE @]
    /\ UNCHANGED << currentScreen, dumpIt, crazyHead, touching, lastTick,
                    lastPreview, flight, budget, tracker, lastTouch, flushIt,
                    headCheck, bowl, toilet, deadeye >>

\* a button, a touch or a timer sets gameState
Frames_SetGameState ==
    /\ \E g \in Loop_states(loop.game) \ {loop.gameState} :
          loop' = [loop EXCEPT !.gameState = g, !.rerun = FALSE]
    /\ UNCHANGED << currentScreen, dumpIt, crazyHead, touching, lastTick,
                    lastPreview, flight, budget, tracker, lastTouch, flushIt,
                    headCheck, bowl, toilet, deadeye >>

\* another dependency of the effect changes: updatePhysics is recreated
\* (Dump It, Flush It), the character changes (Toilet Chaos)
Frames_Rerender ==
    /\ ~loop.dirty
    /\ loop' = [loop EXCEPT !.dirty = TRUE, !.rerun = FALSE]
    /\ UNCHANGED << currentScreen, dumpIt, crazyHead, touching, lastTick,
                    lastPreview, flight, budget, tracker, lastTouch, flushIt,
                    headCheck, bowl, toilet, deadeye >>

\* React commits the render and runs the effect after its last cleanup
Frames_Effects ==
    /\ Loop_unflushed
    /\ loop' = [Loop_effect(loop, loop.gameState) EXCEPT
                    !.rerun = Loop_pending(loop) > 0]
    /\ UNCHANGED << currentScreen, dumpIt, crazyHead, touching, lastTick,
                    lastPreview, flight, budget, tracker, lastTouch, flushIt,
                    headCheck, bowl, toilet, deadeye >>

\* A game is mounted: its first render is committed, its effect has not run.
InitFrames ==
    /\ currentScreen = "menu"
    /\ dumpIt = DI_initial
    /\ crazyHead = CH_initial
    /\ touching = FALSE
    /\ lastTick = NoTick
    /\ lastPreview = NoArrow
    /\ flight = NoFlight
    /\ budget = [spawns |-> 0, panMoves |-> 0, held |-> 0]
    /\ tracker = NoTracker
    /\ lastTouch = NoTouch
    /\ flushIt = FI_initial
    /\ ArcadeAtRest
    /\ headCheck = NoHeadCheck
    /\ \E game \in LoopGames :
          loop = [NoLoop EXCEPT !.game = game,
                               !.gameState = IF game = "dumpit" THEN "waiting"
                                             ELSE "select",
                               !.dirty = TRUE]

NextFrames == Frames_Fire \/ Frames_SetGameState \/ Frames_Rerender \/ Frames_Effects

SpecFrames == InitFrames /\ [][NextFrames]_vars

\* ------------------------------------------------------------------ the stream of Flush It

\* where the finger goes down and moves to: the nozzle, next to it, and
\* places in the bowl
FlowXs == {BOWL_CENTER_X - Px(120), BOWL_CENTER_X - Px(60), BOWL_CENTER_X,
           BOWL_CENTER_X + Px(5), BOWL_CENTER_X + Px(90), BOWL_CENTER_X + Px(150)}

FlowYs == {Px(100), BOWL_CENTER_Y - Scale(BOWL_RADIUS_Y, 60, 100), Px(180),
           Px(260), Px(340), Px(420)}

FI_show(s) ==
    /\ flushIt' = s
    /\ UNCHANGED << currentScreen, dumpIt, crazyHead, lastTick, lastPreview,
                    flight, budget, tracker, lastTouch, loop, headCheck, bowl,
                    toilet, deadeye >>

\* the start button of the selection screen
FI_StartGame ==
    /\ flushIt.gameState = "select"
    /\ FI_show(FI_startGame(flushIt))
    /\ UNCHANGED touching

\* the change-icon button of the game screen
FI_ChangeIcon ==
    /\ flushIt.gameState = "playing"
    /\ FI_show([flushIt EXCEPT !.gameState = "select"])
    /\ UNCHANGED touching

FI_TouchStart ==
    /\ ~touching
    /\ touching' = TRUE
    /\ \E x \in FlowXs, y \in FlowYs : FI_show(FI_onTouchStart(flushIt, x, y))

FI_TouchMove ==
    /\ touching
    /\ \E x \in FlowXs, y \in FlowYs : FI_show(FI_onTouchMove(flushIt, x, y))
    /\ UNCHANGED touching

FI_TouchEnd ==
    /\ touching
    /\ touching' = FALSE
    /\ FI_show(FI_onTouchEnd(flushIt))

InitFlow ==
    /\ currentScreen = "menu"
    /\ dumpIt = DI_initial
    /\ crazyHead = CH_initial
    /\ touching = FALSE
    /\ lastTick = NoTick
    /\ lastPreview = NoArrow
    /\ flight = NoFlight
    /\ budget = [spawns |-> 0, panMoves |-> 0, held |-> 0]
    /\ tracker = NoTracker
    /\ lastTouch = NoTouch
    /\ loop = NoLoop
    /\ flushIt = FI_initial
    /\ ArcadeAtRest
    /\ headCheck = NoHeadCheck

NextFlow ==
    FI_StartGame \/ FI_ChangeIcon \/ FI_TouchStart \/ FI_TouchMove \/ FI_TouchEnd

SpecFlow == InitFlow /\ [][NextFlow]_vars

\* ------------------------------------------------------------------ the bowl of Flush It

\* the windows Flush It runs in: a phone held upright, and one held sideways
BowlWindows == {[w |-> Px(320), h |-> Px(600)], [w |-> Px(640), h |-> Px(360)]}

BowlIcons == {"smiley"}

\* the draws of the two radii of spawnObjects, in hundredths
SpawnFx == {40}

SpawnFy == {30, 74}

\* the draws of (Math.random() - 0.5) that shake a stuck object
JitterDraws == {49}

\* games started, times the finger goes down, ticks without a stream and
\* ticks that shake the objects
MaxStarts == 1

MaxFlowTouches == 1

MaxIdleTicks == 2

MaxJitters == 1

\* where the finger goes down: on the drain, or left of the bowl's centre
Bowl_touchPoints(win) ==
    {<< BowlCenterX(win), DrainY(win) >>,
     << BowlCenterX(win) - Px(80), BowlCenterY(win) >>}

Bowl_show(b, st) ==
    /\ bowl' = b
    /\ flushIt' = st
    /\ UNCHANGED << currentScreen, dumpIt, crazyHead, lastTick, lastPreview, flight,
                    budget, tracker, lastTouch, loop, headCheck, toilet, deadeye >>

\* the start button, the restart button and the play-again button
Bowl_StartGame ==
    /\ bowl.used.starts < MaxStarts
    /\ \E fx \in SpawnFx, fy \in SpawnFy :
          Bowl_show([FI_spawnObjects(bowl, fx, fy) EXCEPT
                        !.tick = NoBowlTick, !.used.starts = @ + 1],
                    FI_startGame(flushIt))
    /\ UNCHANGED touching

Bowl_TouchStart ==
    /\ ~touching
    /\ bowl.used.touches < MaxFlowTouches
    /\ touching' = TRUE
    /\ \E pt \in Bowl_touchPoints(bowl.win) :
          Bowl_show([bowl EXCEPT !.tick = NoBowlTick, !.used.touches = @ + 1],
                    FI_onTouchStartIn(bowl.win, flushIt, pt[1], pt[2]))

Bowl_TouchEnd ==
    /\ touching
    /\ touching' = FALSE
    /\ Bowl_show([bowl EXCEPT !.tick = NoBowlTick], FI_onTouchEnd(flushIt))

\* one animation frame of Flush It
Bowl_Tick ==
    /\ flushIt.gameState = "playing"
    /\ ~flushIt.isFlowing => bowl.used.idle < MaxIdleTicks
    /\ \E jx \in JitterDraws \cup {0}, jy \in JitterDraws \cup {0} :
          /\ (jx # 0 \/ jy # 0) =>
                 bowl.used.jitters < MaxJitters /\ flushIt.isFlowing /\ ~bowl.tick.ran
          /\ \E t \in {FI_updatePhysics(bowl, flushIt, jx, jy)} :
                Bowl_show([t.b EXCEPT
                              !.used.idle = IF flushIt.isFlowing THEN @ ELSE @ + 1,
                              !.used.jitters = IF jx # 0 \/ jy # 0 THEN @ + 1 ELSE @],
                          [flushIt EXCEPT !.gameState = t.gameState])
    /\ UNCHANGED touching

\* a setItem of saveBestScore completes, in whatever order the storage takes them
Bowl_SaveDone ==
    /\ \E i \in 1 .. Len(bowl.saves) :
          Bowl_show([FI_saveDone(bowl, i) EXCEPT !.tick = NoBowlTick], flushIt)
    /\ UNCHANGED touching

InitBowl ==
    /\ currentScreen = "menu"
    /\ dumpIt = DI_initial
    /\ crazyHead = CH_initial
    /\ touching = FALSE
    /\ lastTick = NoTick
    /\ lastPreview = NoArrow
    /\ flight = NoFlight
    /\ budget = [spawns |-> 0, panMoves |-> 0, held |-> 0]
    /\ tracker = NoTracker
    /\ lastTouch = NoTouch
    /\ loop = NoLoop
    /\ flushIt = FI_initial
    /\ headCheck = NoHeadCheck
    /\ toilet = NoToilet
    /\ deadeye = NoDeadeye
    /\ \E win \in BowlWindows, icon \in BowlIcons :
          bowl = [win |-> win, icon |-> icon, objects |-> << >>, score |-> 0,
                  bestScoreRef |-> 0, stored |-> 0, saves |-> << >>,
                  spawned |-> 0, flushed |-> 0, removedUnflushed |-> FALSE,
                  tick |-> NoBowlTick,
                  used |-> [starts |-> 0, touches |-> 0, idle |-> 0, jitters |-> 0]]

NextBowl ==
    Bowl_StartGame \/ Bowl_TouchStart \/ Bowl_TouchEnd \/ Bowl_Tick \/ Bowl_SaveDone

SpecBowl == InitBowl /\ [][NextBowl]_vars

\* ------------------------------------------------------------------ the patty settling on the pan

\* where the pan is when the body drops onto it
AimPanXs == {Px(120), Px(160), Px(200)}

\* A fresh body of each item dropping onto the pan, the loop's frame pending.
InitAim ==
    /\ currentScreen = "dumpit"
    /\ \E item \in DOMAIN ITEM_CONFIGS, panX \in AimPanXs :
          dumpIt = [DI_initial EXCEPT
                        !.gameState = "playing",
                        !.selectedItem = item,
                        !.pan = [NewPan EXCEPT !.x = panX],
                        !.activePatty =
                            [exists |-> TRUE, x |-> Scale(GAME_WIDTH, 50, 100),
                             y |-> Px(80) + Px(60), vx |-> 0, vy |-> Px(3),
                             radius |-> ITEM_CONFIGS[item].radius,
                             height |-> ITEM_CONFIGS[item].height,
                             isOnPan |-> FALSE, isDisposed |-> FALSE]]
    /\ crazyHead = CH_initial
    /\ touching = FALSE
    /\ lastTick = NoTick
    /\ lastPreview = NoArrow
    /\ flight = [NoFlight EXCEPT !.game = "dumpit"]
    /\ budget = [spawns |-> 1, panMoves |-> 0, held |-> 0]
    /\ tracker = NoTracker
    /\ lastTouch = NoTouch
    /\ loop = [NoLoop EXCEPT !.game = "dumpit", !.current = << "playing" >>,
                             !.effectState = "playing", !.cleanup = TRUE]
    /\ flushIt = FI_initial
    /\ ArcadeAtRest
    /\ headCheck = NoHeadCheck

SpecAim == InitAim /\ [][DI_LoopFrame \/ DI_LoopEffects]_vars

\* ------------------------------------------------------------------ the throw straight up

\* how far the finger is dragged straight down from (160, 300) before it lets go
ThrowDrags == {Px(60), Px(118), Px(121), Px(150), Px(160)}

\* the patty at rest on the pan, the aim not yet begun
DI_atRestOnPan(item) ==
    DI_updatePhysics(
        [DI_initial EXCEPT
            !.gameState = "aiming",
            !.selectedItem = item,
            !.activePatty =
                [exists |-> TRUE, x |-> NewPan.x, y |-> NewPan.y,
                 vx |-> 0, vy |-> 0,
                 radius |-> ITEM_CONFIGS[item].radius,
                 height |-> ITEM_CONFIGS[item].height,
                 isOnPan |-> TRUE, isDisposed |-> FALSE]]).s

\* A body of each item thrown straight up from the pan: the finger went down
\* at (160, 300), was dragged straight down and has let go.
InitThrow ==
    /\ currentScreen = "dumpit"
    /\ \E item \in DOMAIN ITEM_CONFIGS, drag \in ThrowDrags :
          dumpIt = DI_onTouchEnd(
                       DI_onTouchMove(
                           DI_onTouchStart(DI_atRestOnPan(item), Px(160), Px(300), 0),
                           Px(160), Px(300) + drag))
    /\ crazyHead = CH_initial
    /\ touching = FALSE
    /\ lastTick = NoTick
    /\ lastPreview = NoArrow
    /\ flight = [NoFlight EXCEPT !.launched = TRUE, !.game = "dumpit"]
    /\ budget = [spawns |-> 1, panMoves |-> 0, held |-> 0]
    /\ tracker = NoTracker
    /\ lastTouch = NoTouch
    /\ loop = NoLoop
    /\ flushIt = FI_initial
    /\ ArcadeAtRest
    /\ headCheck = NoHeadCheck

SpecThrow == InitThrow /\ [][DI_Tick]_vars

\* ------------------------------------------------------------------ a game of Deadeye

\* the draws of the five targets of startGame and of the target the loop
\* spawns: slow targets, three drifting down and two up
DE_StartDraws ==
    << [side |-> 0, along |-> 50, speed |-> 30, cross |-> 0, size |-> 120],
       [side |-> 0, along |-> 50, speed |-> 30, cross |-> 0, size |-> 120],
       [side |-> 0, along |-> 50, speed |-> 30, cross |-> 0, size |-> 120],
       [side |-> 2, along |-> 50, speed |-> 30, cross |-> 0, size |-> 90],
       [side |-> 2, along |-> 50, speed |-> 30, cross |-> 0, size |-> 90] >>

DE_LoopDraw == [side |-> 3, along |-> 50, speed |-> 30, cross |-> 0, size |-> 100]

\* where startGame puts the five targets: two left and right of the
\* crosshair, one further right, two in the corners
DE_StartPlaces == << << 40, 56 >>, << 60, 56 >>, << 90, 58 >>, << 10, 10 >>, << 90, 90 >> >>

\* aims begun, drags and games started in a run of the model, and saves in
\* flight at a time
MaxAims == 2

MaxDrags == 1

MaxGames == 2

MaxSavesInFlight == 2

\* the player shoots in frame ShotFrame, plays on from frame RunFrame and
\* stops in frame LastFrame
ShotFrame == 95

RunFrame == 117

LastFrame == 125

DE_playerActs ==
    \/ deadeye.gameState = "select"
    \/ deadeye.time = ShotFrame
    \/ deadeye.time >= RunFrame

DE_TouchDown == {<< Px(100), Px(400) >>}

DE_TouchDrags == {<< Px(300), Px(400) >>, << Px(100), Px(500) >>}

DE_unused == [aims |-> 0, drags |-> 0, games |-> 0]

DE_show(s) ==
    /\ deadeye' = s
    /\ UNCHANGED << currentScreen, dumpIt, crazyHead, lastTick, lastPreview, flight,
                    budget, tracker, lastTouch, loop, flushIt, headCheck, bowl, toilet >>

\* the start button of the select screen and the restart button of the game
DE_StartGame ==
    /\ DE_playerActs
    /\ deadeye.used.games < MaxGames
    /\ DE_show([DE_startGame(deadeye, DE_StartDraws, DE_StartPlaces) EXCEPT
                    !.shot = NoShot, !.used.games = @ + 1])
    /\ UNCHANGED touching

DE_TouchStart ==
    /\ ~touching
    /\ DE_playerActs
    /\ deadeye.gameState = "playing"
    /\ deadeye.used.aims < MaxAims
    /\ touching' = TRUE
    /\ \E pt \in DE_TouchDown :
          DE_show([DE_onTouchStart(deadeye, pt[1], pt[2]) EXCEPT
                      !.shot = NoShot, !.used.aims = @ + 1])

DE_TouchMove ==
    /\ touching
    /\ DE_playerActs
    /\ deadeye.used.drags < MaxDrags
    /\ \E pt \in DE_TouchDrags :
          DE_show([DE_onTouchMove(deadeye, pt[1], pt[2]) EXCEPT
                      !.shot = NoShot, !.used.drags = @ + 1])
    /\ UNCHANGED touching

DE_TouchEnd ==
    /\ touching
    /\ DE_playerActs
    /\ touching' = FALSE
    /\ DE_show(DE_onTouchEnd([deadeye EXCEPT !.shot = NoShot]))

\* the 150 ms timer of fireBullet
DE_BulletTimer ==
    /\ deadeye.pendingBullet > 0
    /\ DE_show([deadeye EXCEPT !.pendingBullet = @ - 1, !.bulletFiring = FALSE,
                                !.shot = NoShot])
    /\ UNCHANGED touching

\* one animation frame; the storage completes a save before more than
\* MaxSavesInFlight are in flight
DE_Tick ==
    /\ deadeye.gameState = "playing"
    /\ deadeye.time < LastFrame
    /\ deadeye.score > deadeye.bestScoreRef => Len(deadeye.saves) < MaxSavesInFlight
    /\ DE_show(DE_loop(deadeye, DE_LoopDraw))
    /\ UNCHANGED touching

\* a setItem of saveBestScore completes, in whatever order the storage takes them
DE_SaveDone ==
    /\ \E i \in 1 .. Len(deadeye.saves) : DE_show(DE_saveDone(deadeye, i))
    /\ UNCHANGED touching

\* Deadeye on its select screen
InitDeadeye ==
    /\ currentScreen = "menu"
    /\ dumpIt = DI_initial
    /\ crazyHead = CH_initial
    /\ touching = FALSE
    /\ lastTick = NoTick
    /\ lastPreview = NoArrow
    /\ flight = NoFlight
    /\ budget = [spawns |-> 0, panMoves |-> 0, held |-> 0]
    /\ tracker = NoTracker
    /\ lastTouch = NoTouch
    /\ loop = NoLoop
    /\ flushIt = FI_initial
    /\ headCheck = NoHeadCheck
    /\ bowl = NoBowl
    /\ toilet = NoToilet
    /\ deadeye = [f \in DOMAIN DE_initial \cup {"used"} |->
                      IF f = "used" THEN DE_unused ELSE DE_initial[f]]

NextDeadeye ==
    \/ DE_StartGame
    \/ DE_TouchStart
    \/ DE_TouchMove
    \/ DE_TouchEnd
    \/ DE_BulletTimer
    \/ DE_Tick
    \/ DE_SaveDone

SpecDeadeye == InitDeadeye /\ [][NextDeadeye]_vars

\* ------------------------------------------------------------------ a flight of Toilet Chaos

\* the draws of initObstacles and of a recycled obstacle: gaps in the middle
\* of the screen or a little above it, streams in phase or in antiphase
TC_Courses ==
    { [i \in 1 .. 4 |-> [gap |-> 50, phase |-> 0]],
      [i \in 1 .. 4 |-> [gap |-> 40, phase |-> 314]] }

TC_RecycleDraw == [gap |-> 50, phase |-> 0]

\* the player taps on every FlapEvery-th frame or lets it go by, plays
\* MaxRounds rounds, and a round is followed for TC_LastFrame frames
FlapEvery == 12

MaxRounds == 2

TC_LastFrame == 115

TC_show(t) ==
    /\ toilet' = t
    /\ UNCHANGED << currentScreen, dumpIt, crazyHead, touching, lastTick, lastPreview,
                    flight, budget, tracker, lastTouch, loop, flushIt, headCheck,
                    bowl, deadeye >>

\* the start button of the select screen
TC_StartGame ==
    /\ toilet.gameState = "select"
    /\ \E draws \in TC_Courses :
          TC_show([TC_startGame(toilet, draws) EXCEPT !.rounds = @ + 1])

\* a tap on the game area: a flap while playing, a restart after a splat
TC_Flap ==
    /\ \/ toilet.gameState = "playing" /\ toilet.gameTime % FlapEvery = 0
       \/ toilet.gameState = "splat" /\ toilet.rounds < MaxRounds
    /\ \E draws \in TC_Courses :
          TC_show([handleFlap(toilet, draws) EXCEPT
                      !.rounds = IF toilet.gameState = "splat" THEN @ + 1 ELSE @])

\* one animation frame
TC_Tick ==
    /\ toilet.gameState = "playing"
    /\ toilet.gameTime < TC_LastFrame
    /\ TC_show(TC_loop(toilet, TC_RecycleDraw))

\* Toilet Chaos on its select screen
InitToilet ==
    /\ currentScreen = "menu"
    /\ dumpIt = DI_initial
    /\ crazyHead = CH_initial
    /\ touching = FALSE
    /\ lastTick = NoTick
    /\ lastPreview = NoArrow
    /\ flight = NoFlight
    /\ budget = [spawns |-> 0, panMoves |-> 0, held |-> 0]
    /\ tracker = NoTracker
    /\ lastTouch = NoTouch
    /\ loop = NoLoop
    /\ flushIt = FI_initial
    /\ headCheck = NoHeadCheck
    /\ bowl = NoBowl
    /\ deadeye = NoDeadeye
    /\ toilet = [f \in DOMAIN TC_initial \cup {"rounds"} |->
                     IF f = "rounds" THEN 0 ELSE TC_initial[f]]

NextToilet ==
    \/ TC_StartGame
    \/ TC_Flap
    \/ TC_Tick

SpecToilet == InitToilet /\ [][NextToilet]_vars

\* ------------------------------------------------------------------ the head

\* where the projectile is, from the centre of the head: every 2 px out to
\* 100 px, along a horizontal and along a diagonal
HeadDistances == {Px(2) * i : i \in 0 .. 50}

\* A projectile of either version at some distance from the head.
InitHead ==
    /\ currentScreen = "menu"
    /\ dumpIt = DI_initial
    /\ crazyHead = CH_initial
    /\ touching = FALSE
    /\ lastTick = NoTick
    /\ lastPreview = NoArrow
    /\ flight = NoFlight
    /\ budget = [spawns |-> 0, panMoves |-> 0, held |-> 0]
    /\ tracker = NoTracker
    /\ lastTouch = NoTouch
    /\ loop = NoLoop
    /\ flushIt = FI_initial
    /\ ArcadeAtRest
    /\ \E version \in CrazyHeadVersions, itemId \in DOMAIN CRAZY_HEAD_ITEMS,
          d \in HeadDistances, diagonal \in BOOLEAN :
          headCheck = [version |-> version, itemId |-> itemId,
                       radius |-> CRAZY_HEAD_ITEMS[itemId].radius,
                       dx |-> d, dy |-> IF diagonal THEN -d ELSE 0,
                       answer |-> "unasked"]

\* the tick asks checkHeadCollision about the projectile, the head at rest
Head_Check ==
    /\ headCheck.answer = "unasked"
    /\ headCheck' =
          [headCheck EXCEPT !.answer =
              checkHeadCollisionOf(headCheck.version,
                                   [x |-> CHARACTER_X + headCheck.dx,
                                    y |-> CHARACTER_Y - Px(60) + headCheck.dy,
                                    radius |-> headCheck.radius],
                                   [x |-> 0, y |-> 0])]
    /\ UNCHANGED << currentScreen, dumpIt, crazyHead, touching, lastTick,
                    lastPreview, flight, budget, tracker, lastTouch, loop, flushIt,
                    bowl, toilet, deadeye >>

SpecHead == InitHead /\ [][Head_Check]_vars

\* ------------------------------------------------------------------ properties

Body == IF currentScreen = "dumpit" THEN dumpIt.activePatty ELSE crazyHead.projectile

\* C1: in both games the velocity a release gives the body equals the seed
\* velocity (launchVx, launchVy) getAimArrow computes from the same anchor and
\* pointer, clamp of the power and upward boost included.
C1_LaunchVelocityIsPreviewSeed ==
    [][ /\ (dumpIt.gameState = "aiming" /\ dumpIt'.gameState = "playing")
            => /\ DI_getAimArrow(dumpIt).set
               /\ dumpIt'.activePatty.vx = DI_getAimArrow(dumpIt).launchVx
               /\ dumpIt'.activePatty.vy = DI_getAimArrow(dumpIt).launchVy
        /\ (crazyHead.gameState = "aiming" /\ crazyHead'.gameState = "flying")
            => /\ CH_getAimArrow(crazyHead).set
               /\ crazyHead'.projectile.vx = CH_getAimArrow(crazyHead).launchVx
               /\ crazyHead'.projectile.vy = CH_getAimArrow(crazyHead).launchVy
      ]_vars

\* a patty just launched by a drag longer than MAX_ARROW_LENGTH, flying with
\* the velocity of the arrow drawn before the release
C1_ClampedLaunch ==
    /\ flight.launched /\ flight.game = "dumpit" /\ flight.ticks = 0
    /\ flight.drag > MAX_ARROW_LENGTH
    /\ lastPreview.set
    /\ dumpIt.activePatty.vx = lastPreview.launchVx
    /\ dumpIt.activePatty.vy = lastPreview.launchVy

\* C2: the k-th point of the trajectory preview is the position of the
\* launched body after k ticks without a collision, the preview starting
\* from the body's position (k = 0).
C2_PreviewIsTheFlight ==
    /\ (flight.launched /\ flight.ticks = 0 /\ lastPreview.set)
        => /\ lastPreview.trajectory[1].x = flight.x0
           /\ lastPreview.trajectory[1].y = flight.y0
    /\ (flight.launched /\ flight.clean /\ lastTick.ran /\ lastPreview.set
          /\ flight.ticks >= 1 /\ flight.ticks < Len(lastPreview.trajectory))
        => /\ lastPreview.trajectory[flight.ticks + 1].x = lastTick.x
           /\ lastPreview.trajectory[flight.ticks + 1].y = lastTick.y

\* C3: the body stored for the next tick is inside the horizontal bounds,
\* radius <= x <= GAME_WIDTH - radius and so 0 <= x <= GAME_WIDTH.
C3_BodyInsideTheScreen ==
    Body.exists
    => /\ 0 <= Body.x /\ Body.x <= GAME_WIDTH
       /\ Body.radius <= Body.x /\ Body.x <= GAME_WIDTH - Body.radius

\* a tick that bounced the patty off the right edge and stored it
C3_RightEdgeBounce ==
    /\ lastTick.ran /\ lastTick.game = "dumpit"
    /\ \E i \in DOMAIN lastTick.responses : lastTick.responses[i].kind = "right"
    /\ lastTick.x + lastTick.radius > GAME_WIDTH
    /\ dumpIt.activePatty.exists
    /\ dumpIt.activePatty.x = GAME_WIDTH - dumpIt.activePatty.radius

\* |after| <= |before| * coefficient / 100
ScaledBy(after, before, coefficient) == Abs(after) * 100 <= Abs(before) * coefficient

HasResponse(kind) ==
    \E i \in DOMAIN lastTick.responses : lastTick.responses[i].kind = kind

\* C4: every collision response scales the velocity component it reflects by
\* its bounce coefficient and leaves the other component alone, so none adds
\* speed beyond the 0.4 * pan.vx a moving pan imparts: a pan bounce halves vy
\* and adds 0.4 * pan.vx to vx, a bin bounce and a head bounce scale both
\* components, a screen edge scales vx and keeps vy.
C4_ResponsesNeverAddSpeed ==
    lastTick.ran
    => \A i \in DOMAIN lastTick.responses :
          LET r == lastTick.responses[i]
              edge == IF lastTick.game = "dumpit" THEN BOUNCE ELSE CH_BOUNCE
          IN  CASE r.kind = "pan" ->
                       /\ Abs(r.vx1) <= Abs(r.vx0) + Scale(Abs(r.panVx), 40, 100)
                       /\ ScaledBy(r.vy1, r.vy0, PAN_BOUNCE)
                [] r.kind = "bin" ->
                       ScaledBy(r.vx1, r.vx0, BOUNCE) /\ ScaledBy(r.vy1, r.vy0, BOUNCE)
                [] r.kind = "head" ->
                       ScaledBy(r.vx1, r.vx0, CH_BOUNCE) /\ ScaledBy(r.vy1, r.vy0, CH_BOUNCE)
                [] OTHER ->
                       ScaledBy(r.vx1, r.vx0, edge) /\ r.vy1 = r.vy0

\* a bounce off a moving pan that changed the patty's vx
C4_MovingPanBounce ==
    /\ lastTick.ran
    /\ \E i \in DOMAIN lastTick.responses :
          /\ lastTick.responses[i].kind = "pan"
          /\ lastTick.responses[i].panVx # 0
          /\ lastTick.responses[i].vx1 # lastTick.responses[i].vx0

\* C4 as stated: the speed after a response of a stationary surface is at most
\* the speed before it times the largest bounce coefficient, 0.5.
C4_SpeedScaledByLargestCoefficient ==
    lastTick.ran
    => \A i \in DOMAIN lastTick.responses :
          LET r == lastTick.responses[i]
          IN  r.panVx = 0
              => 4 * (Sq(r.vx1) + Sq(r.vy1)) <= Sq(r.vx0) + Sq(r.vy0)

\* the body the last Dump It tick handed to checkTrashBinCollision
TestedPatty ==
    [x |-> lastTick.tested.x, y |-> lastTick.tested.y,
     vx |-> lastTick.tested.vx, vy |-> lastTick.tested.vy,
     radius |-> lastTick.radius,
     height |-> ITEM_CONFIGS[dumpIt.selectedItem].height]

TheBin == getTargetPosition(dumpIt.currentLevel, dumpIt.selectedTarget)

\* C6: in one Dump It tick a patty is counted as a disposal exactly when the
\* bin test says inside, takes the rim reflection exactly when it says side,
\* and so never both.
C6_InsideAndSideExclusive ==
    (lastTick.ran /\ lastTick.game = "dumpit")
    => /\ lastTick.counted <=> lastTick.bin = "inside"
       /\ HasResponse("bin") <=> lastTick.bin = "side"
       /\ ~(lastTick.counted /\ HasResponse("bin"))

\* a counted disposal of a patty that also overlapped the bin's wall zone
C6_CountedWhileOverlappingTheWall ==
    /\ lastTick.ran /\ lastTick.game = "dumpit"
    /\ lastTick.counted
    /\ binSide(TestedPatty, TheBin)
    /\ ~HasResponse("bin")

\* C7: a projectile whose free path meets the head centre exactly is never
\* classified edge and its throw does not end as a miss.
C7_AimedThrowIsNeverDeflected ==
    (lastTick.ran /\ lastTick.game = "crazyhead" /\ flight.aimed)
    => lastTick.head # "edge" /\ ~lastTick.lost

\* C10: a tick whose body is below the screen after integration,
\* y - radius > GAME_HEIGHT, ends the attempt as a loss in that tick.
C10_BelowTheScreenIsALoss ==
    (lastTick.ran /\ lastTick.y - lastTick.radius > GAME_HEIGHT)
    => lastTick.lost

\* the tested patty is centred exactly on an edge of the bin's opening, below
\* the opening's top and above the bin's bottom, and falls
OnOpeningEdge ==
    LET openingLeft == TheBin.x + (TheBin.width - TheBin.openingWidth) \div 2
    IN  /\ lastTick.ran /\ lastTick.game = "dumpit"
        /\ TestedPatty.x \in {openingLeft, openingLeft + TheBin.openingWidth}
        /\ TestedPatty.y > TheBin.openingY
        /\ TestedPatty.y < TheBin.y + TheBin.height
        /\ TestedPatty.vy > 0

\* more than 10 px below the opening's top and more than 10 px above the bottom
InCountedDepth ==
    /\ TestedPatty.y > TheBin.openingY + Px(10)
    /\ TestedPatty.y < TheBin.y + TheBin.height - Px(10)

\* C5: for a falling patty centred exactly on an edge of the opening, between
\* the opening's top and the bin's bottom, the bin test says inside when the
\* patty is more than 10 px from both, and side in the 10 px below the top
\* and above the bottom.
C5_OpeningEdgeCountsInside ==
    OnOpeningEdge
    => /\ InCountedDepth => lastTick.bin = "inside" /\ lastTick.counted
       /\ ~InCountedDepth => lastTick.bin = "side" /\ HasResponse("bin")

\* a patty on the left edge of the opening counted as a disposal
C5_CountedOnTheEdge ==
    /\ OnOpeningEdge
    /\ InCountedDepth
    /\ TestedPatty.x = TheBin.x + (TheBin.width - TheBin.openingWidth) \div 2
    /\ lastTick.bin = "inside"
    /\ dumpIt.disposedCount = 1

\* C5 as stated: on the edge of the opening the rim bounce takes priority.
C5_OpeningEdgeBouncesOffTheRim ==
    OnOpeningEdge => lastTick.bin = "side"

\* C8: the body dropped from (160, 60) meets the pan before its y exceeds
\* 300 + the pan's height, the pan collision does register, and the response
\* to that first collision leaves vy strictly negative.
C8_DropBouncesOffThePan ==
    /\ [](flight.clean => dumpIt.activePatty.y <= Px(300) + dumpIt.pan.height)
    /\ <>(~flight.clean)
    /\ [][ (flight.clean /\ ~flight'.clean)
            => /\ lastTick'.responses[1].kind = "pan"
               /\ lastTick'.responses[1].vy1 < 0
               /\ dumpIt'.activePatty.vy < 0 ]_vars

\* the tick of the first pan collision of the dropped patty
C8_FirstBounce ==
    /\ dumpIt.selectedItem = "patty"
    /\ lastTick.ran /\ HasResponse("pan")
    /\ lastTick.responses[1].vy0 > 0
    /\ lastTick.responses[1].vy1 < 0
    /\ lastTick.y <= Px(300) + dumpIt.pan.height
    /\ flight.ticks = 28

\* C9: at every tick of the tracker that finds the body not settled
\* settledSince is null after the tick, and a win fires only at a tick at
\* least REQUIRED_DWELL_MS after the last tick that found the body not
\* settled: a body disturbed before the dwell has elapsed wins nothing.
C9_DisturbanceRestartsTheDwell ==
    [][ tracker'.now > tracker.now
        => /\ ~isSettled(tracker) => tracker'.settledSince = << >>
           /\ ~isSettled(tracker) => tracker'.wins = tracker.wins
           /\ tracker'.wins > tracker.wins
              => tracker'.now - tracker'.lastUnsettled >= REQUIRED_DWELL_MS ]_vars

\* a body at rest in the zone for REQUIRED_DWELL_MS - 1 ms, then given
\* vx = 5: the next tick has cleared settledSince and fired no win
C9_DisturbedOneMsEarly ==
    /\ tracker.withinZoneBounds /\ tracker.vx = 5 /\ tracker.vy = 0
    /\ tracker.dwellLost = REQUIRED_DWELL_MS - 1
    /\ tracker.lastUnsettled = tracker.now
    /\ tracker.settledSince = << >>
    /\ tracker.wins = 0

\* the loss tests of Dump It on the body the last tick left: below the screen
\* bottom, or at ground level with |vy| < 2
BelowTheBottom ==
    lastTick.after.y - lastTick.radius > GAME_HEIGHT

AtGroundLevel ==
    /\ lastTick.after.y + lastTick.height > GAME_HEIGHT - Px(20)
    /\ Abs(lastTick.after.vy) < 200

C12_NoOutcomeAfterTheHeadshot ==
    lastTick.ran /\ lastTick.game = "crazyhead" /\ lastTick.hadHit
    => /\ lastTick.head = "none"
       /\ ~lastTick.counted
       /\ ~lastTick.lost
       /\ crazyHead.gameState # "fail"

\* the touch handler just run was a release of an aim drag no longer than
\* the launch threshold of 25
ShortRelease ==
    /\ lastTouch.kind = "end" /\ lastTouch.aiming
    /\ Sq(lastTouch.dx) + Sq(lastTouch.dy) <= Sq(Px(25))

\* C13: after the release of an aim drag of 25 or less the patty of Dump It
\* still rests on the pan, at velocity 0, in 'aiming', and the projectile of
\* Crazy Head is gone and the state is 'ready'.
C13_ShortDragIsNoLaunch ==
    ShortRelease
    => /\ lastTouch.game = "dumpit"
          => /\ dumpIt.gameState = "aiming"
             /\ dumpIt.activePatty.exists /\ dumpIt.activePatty.isOnPan
             /\ dumpIt.activePatty.vx = 0 /\ dumpIt.activePatty.vy = 0
       /\ lastTouch.game = "crazyhead"
          => /\ crazyHead.gameState = "ready"
             /\ ~crazyHead.projectile.exists

\* the release of a drag of exactly 25 in Dump It
C13_ReleasedAtTheThreshold ==
    /\ ShortRelease /\ lastTouch.game = "dumpit"
    /\ Sq(lastTouch.dx) + Sq(lastTouch.dy) = Sq(Px(25))
    /\ dumpIt.gameState = "aiming" /\ dumpIt.activePatty.isOnPan
    /\ ~dumpIt.aimStart.set

\* a step of Dump It out of 'win' or 'fail' is the delayed nextLevel or
\* restartLevel or the reload button, and any other step leaves the state,
\* the patty and the disposed count as they are
DI_OverIsTerminal ==
    currentScreen = "dumpit" /\ dumpIt.gameState \in {"win", "fail"}
    => \/ /\ dumpIt'.gameState = dumpIt.gameState
          /\ dumpIt'.activePatty = dumpIt.activePatty
          /\ dumpIt'.disposedCount = dumpIt.disposedCount
       \/ DI_NextLevelTimer \/ DI_RestartTimer \/ DI_RestartButton

\* the same of Crazy Head, its projectile and its headshot count
CH_OverIsTerminal ==
    currentScreen = "crazyhead" /\ crazyHead.gameState \in {"win", "fail"}
    => \/ /\ crazyHead'.gameState = crazyHead.gameState
          /\ crazyHead'.projectile = crazyHead.projectile
          /\ crazyHead'.headshots = crazyHead.headshots
       \/ CH_NextLevelTimer \/ CH_RestartTimer \/ CH_RestartButton

\* C14: in both games 'win' and 'fail' are terminal for the attempt: the
\* body and the success counter do not change, and the only steps out are
\* the delayed nextLevel or restartLevel and the manual restart.
C14_WinAndFailAreTerminal ==
    [][DI_OverIsTerminal /\ CH_OverIsTerminal]_vars

\* C15: the delayed step out of a win at level L of Dump It starts an
\* attempt at level L + 1 when L < 4 and at level 0 when L = 4, and the
\* delayed step out of a fail restarts the same level with a disposed count
\* of 0.
C15_WinAdvancesFailRestarts ==
    [][ /\ dumpIt.gameState = "win" /\ dumpIt'.gameState = "waiting"
           => /\ dumpIt'.currentLevel =
                     IF dumpIt.currentLevel < TOTAL_LEVELS - 1
                     THEN dumpIt.currentLevel + 1 ELSE 0
              /\ dumpIt'.disposedCount = 0
        /\ dumpIt.gameState = "fail" /\ dumpIt'.gameState = "waiting"
           => /\ dumpIt'.currentLevel = dumpIt.currentLevel
              /\ dumpIt'.disposedCount = 0 ]_vars

\* C16: a frame that was pending when the attempt ended (won, failed, or its
\* patty disposed of) never integrates the body again or registers a second
\* outcome: if it fires at all, its tick returns at once.
C16_NoTickAfterTheAttempt == ~(loop.fired.stale /\ loop.fired.ran)

\* C17: in every game at most one animation frame is pending at any time,
\* however often the game-loop effect runs again: the frame whose id is in
\* gameLoopRef, and no older one.
C17_AtMostOneFramePending == Loop_pending(loop) <= 1 /\ loop.orphans = << >>

\* C17, witness: the effect of Toilet Chaos has just run again while a frame
\* was pending, and one frame is pending.
C17_EffectRanAgainWithAFramePending ==
    /\ loop.game = "toiletchaos"
    /\ loop.rerun
    /\ Loop_pending(loop) = 1

\* C18: a touch handler (start, move or end) never writes the body: the
\* patty of Dump It and the projectile of Crazy Head are after the handler
\* what they were before it, in position, velocity and existence.
C18_TouchNeverWritesTheBody ==
    [][lastTouch'.kind # "none" =>
          /\ dumpIt'.activePatty = dumpIt.activePatty
          /\ crazyHead'.projectile = crazyHead.projectile]_vars

\* C19: no touch handler divides by a zero-length distance: the direction
\* of the stream of Flush It is never the NaN of 0 / 0.
C19_NoNaNDirection == ~flushIt.flowDirection.nan

\* C20: in both versions of Crazy Head the centre threshold of the item is
\* strictly smaller than its edge threshold, and checkHeadCollision answers
\* 'center' below the first, 'edge' between the two and 'none' from the
\* second on.
C20_NestedThresholds ==
    headCheck.answer # "unasked" =>
        LET inCentre == DistanceBelow(headCheck.dx, headCheck.dy,
                            centerThreshold(headCheck.version, headCheck.radius))
            inEdge == DistanceBelow(headCheck.dx, headCheck.dy,
                          edgeThreshold(headCheck.version, headCheck.radius))
        IN  /\ centerThreshold(headCheck.version, headCheck.radius)
                  < edgeThreshold(headCheck.version, headCheck.radius)
            /\ headCheck.answer = "center" <=> inCentre
            /\ headCheck.answer = "edge" <=> ~inCentre /\ inEdge
            /\ headCheck.answer = "none" <=> ~inEdge

\* ------------------------------------------------------------------ C21

\* C21 as stated: whatever the object, one that is not yet flushing and ends
\* a tick of Flush It within DRAIN_RADIUS + 15 of the drain is captured in
\* that tick.
C21_InDrainIsCaptured == ~bowl.tick.missed

\* C21: after a tick of Flush It no object that is not stuck and not flushing
\* is within DRAIN_RADIUS + 15 of the drain, and the score has grown by the
\* number of objects the tick captured.
C21_UnstuckInDrainIsCaptured ==
    bowl.tick.ran =>
        /\ \A i \in 1 .. Len(bowl.objects) :
              (~bowl.objects[i].isFlushing /\ ~bowl.objects[i].stuck)
                  => ~isInDrain(bowl.win, bowl.objects[i])
        /\ bowl.score = bowl.flushed

\* a tick that captured an object while another was still in the bowl
C21_Captured ==
    /\ bowl.tick.ran
    /\ bowl.tick.captured > 0
    /\ \E i \in 1 .. Len(bowl.objects) : ~bowl.objects[i].isFlushing

\* ------------------------------------------------------------------ C22

\* the patty at rest on the pan, 5 px above it
DI_pinned(s) ==
    /\ s.activePatty.vx = 0
    /\ s.activePatty.vy = 0
    /\ s.activePatty.x = s.pan.x
    /\ s.activePatty.y = s.pan.y - s.pan.height \div 2
                            - s.activePatty.height \div 2 - Px(5)

\* C22: a tick of Dump It that starts with gameState 'aiming' and the patty
\* on the pan leaves the patty with velocity (0, 0) at (pan.x, pan.y -
\* pan.height/2 - patty.height/2 - 5), wherever the pan is.
C22_AimingTickPins ==
    [][(/\ dumpIt.gameState = "aiming"
        /\ dumpIt.activePatty.exists
        /\ dumpIt.activePatty.isOnPan
        /\ lastTick'.game = "dumpit")
          => (dumpIt'.activePatty.exists /\ DI_pinned(dumpIt'))]_vars

\* a tick pinned the patty to a pan that is not where it started
C22_PinnedToAMovedPan ==
    /\ lastTick.game = "dumpit"
    /\ ~lastTick.ran
    /\ dumpIt.pan.x # NewPan.x
    /\ DI_pinned(dumpIt)

\* ------------------------------------------------------------------ C23

\* C23: the count of disposals of Dump It and the count of headshots of Crazy
\* Head are never below 0 and never above the count the level requires.
C23_CountWithinRequired ==
    /\ dumpIt.disposedCount >= 0
    /\ dumpIt.disposedCount <= levelConfig(dumpIt.currentLevel).requiredPatties
    /\ crazyHead.headshots >= 0
    /\ crazyHead.headshots <= CH_levelConfig(crazyHead.currentLevel).required

\* ------------------------------------------------------------------ C24

\* what a delayed callback must leave alone in an attempt that is not its own
DI_attempt(s) == << s.activePatty, s.disposedCount, s.gameState, s.currentLevel >>

\* C24: the restart timer of a fail of Dump It that fires when the attempt
\* is no longer the failed one (the reload button has started another)
\* leaves the body, the counter, the gameState and the level as they are.
C24_LateRestartLeavesTheAttempt ==
    [][(/\ dumpIt'.pendingRestart < dumpIt.pendingRestart
        /\ dumpIt.gameState # "fail")
          => DI_attempt(dumpIt') = DI_attempt(dumpIt)]_vars

\* ------------------------------------------------------------------ C25

\* C25: once the gameState of Crazy Head is no longer 'setup' no step takes
\* it back to 'setup'.
C25_NeverBackToSetup ==
    [][crazyHead.gameState # "setup" => crazyHead'.gameState # "setup"]_vars

\* ------------------------------------------------------------------ C26

\* the body is within the horizontal extent of the pan, as checkPanCollision
\* tests it
DI_overPan(p, panState) ==
    /\ p.x + p.radius >= panState.x - panState.width \div 2
    /\ p.x - p.radius <= panState.x + panState.width \div 2

\* how far the bottom of the body is below the surface of the pan
DI_distToSurface(p, panState) == p.y + p.height \div 2 - panSurfaceY(p, panState)

\* C26: a tick of Dump It that moves a body over the pan, falling, from on
\* or above the pan's surface to below it registers a pan collision.
C26_NoFallThroughThePan ==
    [][(/\ lastTick'.game = "dumpit"
        /\ lastTick'.ran
        /\ dumpIt.activePatty.exists
        /\ DI_overPan(dumpIt.activePatty, dumpIt.pan)
        /\ DI_distToSurface(dumpIt.activePatty, dumpIt.pan) <= 0
        /\ DI_overPan(lastTick', dumpIt.pan)
        /\ DI_distToSurface(lastTick', dumpIt.pan) > 0
        /\ lastTick'.vy > 0)
          => \E i \in 1 .. Len(lastTick'.responses) :
                 lastTick'.responses[i].kind = "pan"]_vars

\* ------------------------------------------------------------------ C28

\* C28: in Flush It no object has scored twice, an object has scored if and
\* only if it is flushing, the score is the number of objects that have
\* started flushing since the game started, no object was removed before it
\* was flushing, and in 'complete' the score is the number of objects spawned.
C28_EveryObjectScoresOnce ==
    /\ \A i \in 1 .. Len(bowl.objects) :
          /\ bowl.objects[i].scored <= 1
          /\ bowl.objects[i].scored = 1 <=> bowl.objects[i].isFlushing
    /\ bowl.score = bowl.flushed
    /\ ~bowl.removedUnflushed
    /\ flushIt.gameState = "complete" => bowl.score = bowl.spawned

\* a game of Flush It completed with every object flushed
C28_Completed ==
    /\ flushIt.gameState = "complete"
    /\ bowl.tick.completed
    /\ bowl.spawned = Len(SpawnAngles)
    /\ bowl.score = bowl.spawned

\* ------------------------------------------------------------------ C27

\* C27: no step of Deadeye lowers the best score, neither the value in
\* memory nor the value in the storage, in whatever order the saves complete.
C27_BestScoreNeverDecreases ==
    [][/\ deadeye'.bestScoreRef >= deadeye.bestScoreRef
       /\ deadeye'.stored >= deadeye.stored]_vars

\* ------------------------------------------------------------------ C30

\* C30: in Deadeye the score is the number of targets marked hit since the
\* game started, a shot scores one point for each target that was not hit and
\* within its hit radius, and at most 5 targets that are not hit are on screen.
C30_ScoreIsTheTargetsHit ==
    /\ deadeye.score = deadeye.hits
    /\ deadeye.shot.fired => deadeye.shot.scored = deadeye.shot.inRadius
    /\ DE_unhit(deadeye.targets) <= 5

\* a shot with a target in its radius that was hit before, which scored for
\* another target only
C30_SecondShot ==
    /\ deadeye.shot.fired
    /\ deadeye.shot.scored = 1
    /\ deadeye.score = 3
    /\ \E i \in 1 .. Len(deadeye.targets) :
          /\ deadeye.targets[i].isHit
          /\ deadeye.targets[i].hitTime = ShotFrame
          /\ DE_inHitRadius(deadeye.targets[i], deadeye.crosshair.x, deadeye.crosshair.y)

\* ------------------------------------------------------------------ C29

\* C29: once an obstacle of Toilet Chaos has been counted as passed, the
\* player no longer collides with it: no tick reports a splat caused by an
\* obstacle whose passed flag is set.
C29_NoSplatByAPassedObstacle == ~(toilet.tick.splat /\ toilet.tick.byPassed)

====
